---- MODULE Spec2Model ----
(***************************************************************************)
(* Model of the VCM simulator protocol engine: the wire codec of           *)
(* vcm_protocol.py and the state machine of vcm_state_machine.py.          *)
(*                                                                         *)
(* A hex payload (a Python str) is a sequence of characters.  A character  *)
(* is a number: 0..15 is the hex digit with that value, any other number   *)
(* is a character that int() and bytes.fromhex reject.  An Optional is a   *)
(* sequence of length 0 (None) or 1.  Text (a decoded str) is a sequence   *)
(* of Unicode code points.  Time is counted in whole seconds.              *)
(***************************************************************************)
EXTENDS Integers, Sequences, FiniteSets, TLC

VARIABLES
    ctx,        \* VCMStateMachine.ctx, the VCMContext
    sm,         \* the private attributes of the VCMStateMachine instance
    now,        \* the wall clock read by time.time()
    op,         \* the operation that ran last
    inp,        \* the payload_hex handed to the last process_message call
    responses,  \* the list returned by the last process_message or tick call
    raised,     \* TRUE when the last call ended by an exception
    broadcast_log,  \* the broadcasts tick has returned, each with its time
    ihu_addr,   \* VCMProtocol.ihu_addr
    sendto,     \* the datagrams the last trigger handed to transport.sendto
    sender,     \* the address the last datagram came from, None before the first
    result,     \* the value the last codec function returned
    last_request    \* the sequence of the latest device-initiated request, None before the first

vars == <<ctx, sm, now, op, inp, responses, raised, broadcast_log,
          ihu_addr, sendto, sender, result, last_request>>

\* ---------------------------------------------------------------- bounds
MaxTime == 5             \* the clock stops advancing at this reading
MaxDraws == 6            \* draws from the device sequence counter per session
MaxHandshakeCount == 2   \* pings counted while Idle
MaxSessionTime == 10     \* the clock of SessionSpec stops at this reading
MaxElapsed == 6          \* LiveSpec does not tell longer waits apart
MaxCounterDraws == 180   \* draws from the device sequence counter in CounterSpec
MaxPayloadBytes == 252   \* bytes of data in the messages CodecSpec builds

\* ------------------------------------------------------- Python built-ins
None == <<>>
Some(x) == <<x>>

Min(a, b) == IF a < b THEN a ELSE b

\* s[a:b] of Python, 0-based, clipped to the string
Slice(s, a, b) == SubSeq(s, a + 1, Min(b, Len(s)))

\* s[a:] of Python
SliceFrom(s, a) == SubSeq(s, a + 1, Len(s))

\* str.startswith
startswith(s, p) == Len(s) >= Len(p) /\ SubSeq(s, 1, Len(p)) = p

IsHexString(s) == \A i \in 1..Len(s) : s[i] \in 0..15

RECURSIVE HexValue(_)
HexValue(s) == IF s = <<>> THEN 0 ELSE (16 * HexValue(SubSeq(s, 1, Len(s) - 1))) + s[Len(s)]

\* int(s, 16): [exc |-> TRUE] stands for ValueError
int16(s) ==
    IF s = <<>> \/ ~IsHexString(s)
    THEN [exc |-> TRUE, value |-> 0]
    ELSE [exc |-> FALSE, value |-> HexValue(s)]

RECURSIVE HexDigits(_)
HexDigits(n) == IF n < 16 THEN <<n>> ELSE HexDigits(n \div 16) \o <<(n % 16)>>

\* f"{n:02x}" for n >= 0
format02x(n) == IF n < 16 THEN <<0, n>> ELSE HexDigits(n)

PairsToBytes(s) == [i \in 1..(Len(s) \div 2) |-> (16 * s[(2 * i) - 1]) + s[2 * i]]

\* bytes.hex(): two lower-case digits for every byte
bytes_hex(bs) ==
    [i \in 1..(2 * Len(bs)) |->
        IF i % 2 = 1 THEN bs[(i + 1) \div 2] \div 16 ELSE bs[i \div 2] % 16]

\* bytes.fromhex: ValueError on an odd number of digits or a non-hex character
bytes_fromhex(s) ==
    IF Len(s) % 2 # 0 \/ ~IsHexString(s)
    THEN [exc |-> TRUE, value |-> <<>>]
    ELSE [exc |-> FALSE, value |-> PairsToBytes(s)]

\* one step of the UTF-8 decoder with errors='replace': the code point
\* decoded at the head of bs and the number of bytes consumed; an ill-formed
\* sequence yields U+FFFD (65533) for its maximal well-formed prefix
Utf8Cont(bs, j, lo, hi) == j <= Len(bs) /\ bs[j] >= lo /\ bs[j] <= hi

Utf8Step(bs) ==
    LET b == bs[1]
        need == IF b >= 194 /\ b <= 223 THEN 1
                ELSE IF b >= 224 /\ b <= 239 THEN 2
                ELSE IF b >= 240 /\ b <= 244 THEN 3
                ELSE 0
        lo == IF b = 224 THEN 160 ELSE IF b = 240 THEN 144 ELSE 128
        hi == IF b = 237 THEN 159 ELSE IF b = 244 THEN 143 ELSE 191
        init == IF need = 1 THEN b % 32 ELSE IF need = 2 THEN b % 16 ELSE b % 8
        ok1 == Utf8Cont(bs, 2, lo, hi)
        ok2 == ok1 /\ Utf8Cont(bs, 3, 128, 191)
        ok3 == ok2 /\ Utf8Cont(bs, 4, 128, 191)
    IN  IF b < 128 THEN [cp |-> b, used |-> 1]
        ELSE IF need = 0 THEN [cp |-> 65533, used |-> 1]
        ELSE IF ~ok1 THEN [cp |-> 65533, used |-> 1]
        ELSE IF need = 1 THEN [cp |-> (init * 64) + (bs[2] % 64), used |-> 2]
        ELSE IF ~ok2 THEN [cp |-> 65533, used |-> 2]
        ELSE IF need = 2
             THEN [cp |-> (((init * 64) + (bs[2] % 64)) * 64) + (bs[3] % 64), used |-> 3]
        ELSE IF ~ok3 THEN [cp |-> 65533, used |-> 3]
        ELSE [cp |-> (((((init * 64) + (bs[2] % 64)) * 64) + (bs[3] % 64)) * 64) + (bs[4] % 64),
              used |-> 4]

\* bytes.decode('utf-8', errors='replace')
RECURSIVE decode_utf8_replace(_)
decode_utf8_replace(bs) ==
    IF bs = <<>> THEN <<>>
    ELSE LET st == Utf8Step(bs)
         IN  <<st.cp>> \o decode_utf8_replace(SubSeq(bs, st.used + 1, Len(bs)))

\* ------------------------------------------------- vcm_protocol constants
ACK_DATA == <<0,2,7,0,0,0,0,0>>                       \* "02700000"

\* class Headers
A4_04_0D == <<0,0,10,4,0,4,0,13,0,0,0,0,0,0>>         \* "00a4040d000000"
A3_03_0F == <<0,0,10,3,0,3,0,15,0,0,0,0,0,0>>         \* "00a3030f000000"
A4_04_00 == <<0,0,10,4,0,4,0,0,0,0,0,0,0,0>>          \* "00a40400000000"
A3_03_08 == <<0,0,10,3,0,3,0,8,0,0,0,0,0,0>>          \* "00a30308000000"
A3_03_0A == <<0,0,10,3,0,3,0,10,0,0,0,0,0,0>>         \* "00a3030a000000"
A3_03_11 == <<0,0,10,3,0,3,1,1,0,0,0,0,0,0>>          \* "00a30311000000"
A3_03_10 == <<0,0,10,3,0,3,1,0,0,0,0,0,0,0>>          \* "00a30310000000"
A4_04_08 == <<0,0,10,4,0,4,0,8,0,0,0,0,0,0>>          \* "00a40408000000"
A4_04_02 == <<0,0,10,4,0,4,0,2,0,0,0,0,0,0>>          \* "00a40402000000"
AA_0A_01 == <<0,0,10,10,0,10,0,1,0,0,0,0,0,0>>        \* "00aa0a01000000"
AA_0A_07 == <<0,0,10,10,0,10,0,7,0,0,0,0,0,0>>        \* "00aa0a07000000"
AB_0B_01 == <<0,0,10,11,0,11,0,1,0,0,0,0,0,0>>        \* "00ab0b01000000"

\* class Subheaders
PING_0D == <<10,4,0,13,0,0>>                          \* "a40d00"
PING_0F == <<10,3,0,15,0,0>>                          \* "a30f00"
SETUP_TRIGGER == <<10,4,0,0,0,2>>                     \* "a40002"
SETUP_11 == <<10,3,1,1,0,2>>                          \* "a31102"
SETUP_10 == <<10,3,1,0,0,2>>                          \* "a31002"
SETUP_08 == <<10,3,0,8,0,2>>                          \* "a30802"
STATUS_0A == <<10,3,0,10,0,5>>                        \* "a30a05"
STATUS_00 == <<10,4,0,0,0,5>>                         \* "a40005"
WIFI_SCAN == <<10,4,0,13,0,5>>                        \* "a40d05"
WIFI_PASSWORD == <<10,4,0,8,0,2>>                     \* "a40802"
WIFI_STATUS == <<10,4,0,8,0,5>>                       \* "a40805"
WIFI_FINAL == <<10,4,0,2,0,5>>                        \* "a40205"
CONN_AA01 == <<10,10,0,1,0,5>>                        \* "aa0105"
CONN_AA07 == <<10,10,0,7,0,5>>                        \* "aa0705"
CONN_AB01 == <<10,11,0,1,0,5>>                        \* "ab0105"

\* class StandardMessages
REQUEST_BASIC == <<0,2,0,0,0,0,0,0>>                  \* "02000000"
REQUEST_20 == <<0,2,0,2,0,0,0,0,2,0>>                 \* "0202000020"
REQUEST_80 == <<0,2,0,2,0,0,0,0,8,0>>                 \* "0202000080"
REQUEST_00 == <<0,2,0,2,0,0,0,0,0,0>>                 \* "0202000000"
RESPONSE_00 == <<0,2,0,4,0,0,0,0,0,0,0,0>>            \* "020400000000"
RESPONSE_SHORT == <<0,2,0,4,0,0,0,0,0,0>>             \* "0204000000"
RESPONSE_20 == <<0,2,0,4,0,0,0,0,2,0>>                \* "0204000020"
RESPONSE_80 == <<0,2,0,4,0,0,0,0,8,0>>                \* "0204000080"
BROADCAST_00 == <<0,2,0,5,0,0,0,0,0,0>>               \* "0205000000"
BROADCAST_20 == <<0,2,0,5,0,0,0,0,2,0>>               \* "0205000020"
BROADCAST_40 == <<0,2,0,5,0,0,0,0,4,0>>               \* "0205000040"
BROADCAST_80 == <<0,2,0,5,0,0,0,0,8,0>>               \* "0205000080"
WIFI_CONNECTING == <<0,2,14,0,0,0,0,0,4,8>>           \* "02e0000048"
SSID_SCANNING ==                                      \* "0205000000833a32b9ba30b9baa0"
    <<0,2,0,5,0,0,0,0,0,0,8,3,3,10,3,2,11,9,11,10,3,0,11,9,11,10,10,0>>
SSID_CONNECTED ==                                     \* "0205000040a33a32b9ba30b9b8b0"
    <<0,2,0,5,0,0,0,0,4,0,10,3,3,10,3,2,11,9,11,10,3,0,11,9,11,8,11,0>>

\* data literals of _start_wifi_connection and _handle_wifi_connecting
PASSWORD_ACCEPTED == <<0,2,0,4,0,0,0,0,0,12,14,8,12,10,14,6,14,8,12,2,14,6,8,0>>
                                                      \* "020400000ce8cae6e8c2e680"
WIFI_STATUS_DATA == <<0,2,0,5,0,0,0,0,0,12,14,8,12,10,14,6,14,8,12,2,14,6,8,0>>
                                                      \* "020500000ce8cae6e8c2e680"
WIFI_FINAL_DATA == <<0,2,0,5,0,0,0,0,1,10>>           \* "020500001a"

\* ------------------------------------------------------------ VCMMessage
VCMMessage(h, l, sub, seq, d) ==
    [header |-> h, length |-> l, subheader |-> sub, sequence |-> seq, data |-> d]

\* VCMMessage.raw formatting the two numbers with :x, without padding
raw_unpadded(m) ==
    m.header \o HexDigits(m.length) \o m.subheader \o HexDigits(m.sequence) \o m.data

\* VCMMessage.raw
raw(m) ==
    m.header \o format02x(m.length) \o m.subheader \o format02x(m.sequence) \o m.data

\* VCMMessage.raw_bytes
raw_bytes(m) == bytes_fromhex(raw(m))

\* is_ack accepting every data that starts with the sentinel
is_ack_prefix(m) == startswith(m.data, ACK_DATA)

\* is_ack comparing against a truncated sentinel
is_ack_truncated(m) == m.data = <<0,2,7,0>>

is_ack(m) == m.data = ACK_DATA

is_request(m) ==
    startswith(m.data, <<0,2,0,0>>) \/ startswith(m.data, <<0,2,0,2>>)

is_response(m) == startswith(m.data, <<0,2,0,4>>)

is_broadcast(m) == startswith(m.data, <<0,2,0,5>>)

\* parse_message: None, or the message sliced out of the payload
\* parse_message without the test of the length
parse_message_any_length(payload_hex) ==
    LET length == int16(Slice(payload_hex, 14, 16))
        sequence == int16(Slice(payload_hex, 22, 24))
    IN  IF length.exc \/ sequence.exc THEN None
        ELSE Some(VCMMessage(Slice(payload_hex, 0, 14), length.value,
                             Slice(payload_hex, 16, 22), sequence.value,
                             SliceFrom(payload_hex, 24)))

\* parse_message cutting the data to the size the length byte announces
parse_message_data_by_length(payload_hex) ==
    IF Len(payload_hex) < 24 THEN None
    ELSE LET length == int16(Slice(payload_hex, 14, 16))
             sequence == int16(Slice(payload_hex, 22, 24))
         IN  IF length.exc \/ sequence.exc THEN None
             ELSE Some(VCMMessage(Slice(payload_hex, 0, 14), length.value,
                                  Slice(payload_hex, 16, 22), sequence.value,
                                  Slice(payload_hex, 24, 24 + (2 * (length.value - 4)))))

parse_message(payload_hex) ==
    IF Len(payload_hex) < 24 THEN None
    ELSE LET length == int16(Slice(payload_hex, 14, 16))
             sequence == int16(Slice(payload_hex, 22, 24))
         IN  IF length.exc \/ sequence.exc THEN None
             ELSE Some(VCMMessage(Slice(payload_hex, 0, 14), length.value,
                                  Slice(payload_hex, 16, 22), sequence.value,
                                  SliceFrom(payload_hex, 24)))

\* create_message leaving the sequence byte out of the length
create_message_short_length(header, subheader, sequence, data) ==
    LET data_len == IF data # <<>> THEN Len(data) \div 2 ELSE 0
    IN  VCMMessage(header, 3 + data_len, subheader, sequence, data)

create_message(header, subheader, sequence, data) ==
    LET data_len == IF data # <<>> THEN Len(data) \div 2 ELSE 0
    IN  VCMMessage(header, 3 + 1 + data_len, subheader, sequence, data)

\* create_ack with the sequence 0 of a broadcast
create_ack_zero_sequence(original) ==
    create_message(original.header, original.subheader, 0, ACK_DATA)

create_ack(original) ==
    create_message(original.header, original.subheader, original.sequence, ACK_DATA)

create_response(original, response_data) ==
    create_message(original.header, original.subheader, original.sequence, response_data)

create_broadcast(header, subheader, data) == create_message(header, subheader, 0, data)

create_request_to_ihu(header, subheader, sequence, data) ==
    create_message(header, subheader, sequence, data)

\* decode_wifi_password_message slicing the text from the length byte on
decode_wifi_password_message_off_by_one(msg) ==
    IF ~startswith(msg.data, <<0,2,0,2,0,0,0,0>>)
    THEN [exc |-> FALSE, password |-> None, extra |-> None]
    ELSE LET data_hex == SliceFrom(msg.data, 8)
             fromhex == bytes_fromhex(data_hex)
             data_bytes == fromhex.value
             str_len == data_bytes[1]
         IN  IF fromhex.exc
             THEN [exc |-> FALSE, password |-> None, extra |-> None]
             ELSE IF Len(data_bytes) < 1
             THEN [exc |-> FALSE, password |-> None, extra |-> None]
             ELSE IF Len(data_bytes) < 1 + str_len
             THEN [exc |-> FALSE, password |-> None, extra |-> None]
             ELSE [exc |-> FALSE,
                   password |-> Some(decode_utf8_replace(Slice(data_bytes, 0, str_len))),
                   extra |-> IF Len(data_bytes) > 1 + str_len
                             THEN Some(SliceFrom(data_bytes, 1 + str_len))
                             ELSE None]

\* decode_wifi_password_message without its try/except: the ValueError of
\* bytes.fromhex leaves the function
decode_wifi_password_message_no_except(msg) ==
    IF ~startswith(msg.data, <<0,2,0,2,0,0,0,0>>)
    THEN [exc |-> FALSE, password |-> None, extra |-> None]
    ELSE LET data_hex == SliceFrom(msg.data, 8)
             fromhex == bytes_fromhex(data_hex)
             data_bytes == fromhex.value
             str_len == data_bytes[1]
         IN  IF fromhex.exc
             THEN [exc |-> TRUE, password |-> None, extra |-> None]
             ELSE IF Len(data_bytes) < 1
             THEN [exc |-> FALSE, password |-> None, extra |-> None]
             ELSE IF Len(data_bytes) < 1 + str_len
             THEN [exc |-> FALSE, password |-> None, extra |-> None]
             ELSE [exc |-> FALSE,
                   password |-> Some(decode_utf8_replace(Slice(data_bytes, 1, 1 + str_len))),
                   extra |-> IF Len(data_bytes) > 1 + str_len
                             THEN Some(SliceFrom(data_bytes, 1 + str_len))
                             ELSE None]

\* decode_wifi_password_message: (password, extra), both None when the
\* payload is malformed; exc is TRUE when an exception leaves the function
decode_wifi_password_message(msg) ==
    IF ~startswith(msg.data, <<0,2,0,2,0,0,0,0>>)
    THEN [exc |-> FALSE, password |-> None, extra |-> None]
    ELSE LET data_hex == SliceFrom(msg.data, 8)
             fromhex == bytes_fromhex(data_hex)
             data_bytes == fromhex.value
             str_len == data_bytes[1]
         IN  IF fromhex.exc       \* except: return None, None
             THEN [exc |-> FALSE, password |-> None, extra |-> None]
             ELSE IF Len(data_bytes) < 1
             THEN [exc |-> FALSE, password |-> None, extra |-> None]
             ELSE IF Len(data_bytes) < 1 + str_len
             THEN [exc |-> FALSE, password |-> None, extra |-> None]
             ELSE [exc |-> FALSE,
                   password |-> Some(decode_utf8_replace(Slice(data_bytes, 1, 1 + str_len))),
                   extra |-> IF Len(data_bytes) > 1 + str_len
                             THEN Some(SliceFrom(data_bytes, 1 + str_len))
                             ELSE None]

\* ------------------------------------------------------------ VCMContext
\* VCMContext(): the field defaults (send_callback, which no handler and
\* no tick calls, is left out)
VCMContext ==
    [state |-> "IDLE",
     last_ihu_sequence |-> 0,
     next_vcm_sequence |-> 80,          \* 0x50
     setup_sequence |-> 0,
     setup_trigger_msg |-> None,
     wifi_ssid |-> "testas",
     wifi_password |-> <<>>,
     wifi_connected |-> FALSE,
     last_broadcast_time |-> 0,
     broadcast_interval |-> 5,
     pending_responses |-> <<>>]

\* VCMStateMachine.__init__: the attributes next to ctx; the two sequence
\* attributes do not exist until _handle_wifi_scanning assigns them
VCMStateMachine ==
    [handshake_count |-> 0,
     handshake_messages_seen |-> {},
     setup_phase |-> 0,
     awaiting_ihu_response |-> FALSE,
     wifi_connect_sequence |-> None,
     connection_complete_seq |-> None]

\* the value of a call: the objects as the call leaves them, the returned
\* list, and whether the call ended by an exception instead of returning
Return(c, s, rs) == [ctx |-> c, sm |-> s, responses |-> rs, raised |-> FALSE]
Raise(c, s) == [ctx |-> c, sm |-> s, responses |-> <<>>, raised |-> TRUE]

\* VCMContext.get_next_sequence: the value drawn and the context after it
\* get_next_sequence without the reduction modulo 256
get_next_sequence_no_wrap(c) ==
    [seq |-> c.next_vcm_sequence,
     ctx |-> [c EXCEPT !.next_vcm_sequence = c.next_vcm_sequence + 1]]

get_next_sequence(c) ==
    [seq |-> c.next_vcm_sequence,
     ctx |-> [c EXCEPT !.next_vcm_sequence = (c.next_vcm_sequence + 1) % 256]]

\* ------------------------------------------------------- VCMStateMachine
\* the ping branch shared by four handlers: ACK, then the status response
\* the ping branch answering both topics with the status of a40d00
ping_responses_same_status(msg) ==
    <<create_ack(msg), create_response(msg, RESPONSE_00)>>

\* the ping reply with the acknowledgment after the response
ping_responses_ack_last(msg) ==
    IF msg.subheader = PING_0D
    THEN <<create_response(msg, RESPONSE_00), create_ack(msg)>>
    ELSE <<create_response(msg, RESPONSE_SHORT), create_ack(msg)>>

ping_responses(msg) ==
    <<create_ack(msg),
      IF msg.subheader = PING_0D
      THEN create_response(msg, RESPONSE_00)
      ELSE create_response(msg, RESPONSE_SHORT)>>

create_ssid_broadcast(c) ==
    IF c.state = "WIFI_SCANNING"
    THEN Some(create_message(A4_04_0D, WIFI_SCAN, 0, SSID_SCANNING))
    ELSE IF c.state = "WIFI_CONNECTED"
    THEN Some(create_message(A4_04_0D, WIFI_SCAN, 0, SSID_CONNECTED))
    ELSE None

\* tick comparing the elapsed time with > instead of >=
\* tick broadcasting in WifiScanning only
tick_scanning_only(c, s, current_time) ==
    IF c.state \in {"WIFI_SCANNING"}
       /\ current_time - c.last_broadcast_time >= c.broadcast_interval
    THEN LET c1 == [c EXCEPT !.last_broadcast_time = current_time]
         IN  Return(c1, s, create_ssid_broadcast(c1))
    ELSE Return(c, s, <<>>)

\* tick without the test of the state
tick_any_state(c, s, current_time) ==
    IF current_time - c.last_broadcast_time >= c.broadcast_interval
    THEN LET c1 == [c EXCEPT !.last_broadcast_time = current_time]
         IN  Return(c1, s, create_ssid_broadcast(c1))
    ELSE Return(c, s, <<>>)

\* tick forgetting to restart the timer when it broadcasts
tick_timer_not_reset(c, s, current_time) ==
    IF c.state \in {"WIFI_SCANNING", "WIFI_CONNECTED"}
       /\ current_time - c.last_broadcast_time >= c.broadcast_interval
    THEN Return(c, s, create_ssid_broadcast(c))
    ELSE Return(c, s, <<>>)

tick_strictly_later(c, s, current_time) ==
    IF c.state \in {"WIFI_SCANNING", "WIFI_CONNECTED"}
       /\ current_time - c.last_broadcast_time > c.broadcast_interval
    THEN LET c1 == [c EXCEPT !.last_broadcast_time = current_time]
         IN  Return(c1, s, create_ssid_broadcast(c1))
    ELSE Return(c, s, <<>>)

tick(c, s, current_time) ==
    IF c.state \in {"WIFI_SCANNING", "WIFI_CONNECTED"}
       /\ current_time - c.last_broadcast_time >= c.broadcast_interval
    THEN LET c1 == [c EXCEPT !.last_broadcast_time = current_time]
         IN  Return(c1, s, create_ssid_broadcast(c1))
    ELSE Return(c, s, <<>>)

\* _handle_idle leaving Idle on the ping count alone
handle_idle_count_only(c, s, msg) ==
    IF msg.subheader \in {PING_0D, PING_0F}
    THEN LET s1 == [s EXCEPT !.handshake_messages_seen = @ \cup {msg.subheader},
                             !.handshake_count = @ + 1]
             c1 == IF s1.handshake_count >= 2
                   THEN [c EXCEPT !.state = "HANDSHAKE"]
                   ELSE c
         IN  Return(c1, s1, ping_responses(msg))
    ELSE Return(c, s, <<>>)

handle_idle(c, s, msg) ==
    IF msg.subheader \in {PING_0D, PING_0F}
    THEN LET s1 == [s EXCEPT !.handshake_messages_seen = @ \cup {msg.subheader},
                             !.handshake_count = @ + 1]
             c1 == IF Cardinality(s1.handshake_messages_seen) >= 2
                      /\ s1.handshake_count >= 2
                   THEN [c EXCEPT !.state = "HANDSHAKE"]
                   ELSE c
         IN  Return(c1, s1, ping_responses(msg))
    ELSE Return(c, s, <<>>)

\* _initiate_setup_sequence opening with the second setup topic
initiate_setup_sequence_wrong_topic(c) ==
    LET d == get_next_sequence(c)
    IN  [ctx |-> d.ctx,
         responses |-> <<create_request_to_ihu(A3_03_10, SETUP_10, d.seq, REQUEST_00)>>]

initiate_setup_sequence(c) ==
    LET d == get_next_sequence(c)
    IN  [ctx |-> d.ctx,
         responses |-> <<create_request_to_ihu(A3_03_11, SETUP_11, d.seq, REQUEST_00)>>]

\* _handle_handshake starting setup on the trigger topic whatever the data
handle_handshake_any_trigger(c, s, msg) ==
    IF msg.subheader \in {PING_0D, PING_0F}
    THEN Return(c, s, ping_responses(msg))
    ELSE IF msg.subheader = SETUP_TRIGGER
    THEN LET c1 == [c EXCEPT !.setup_trigger_msg = Some(msg),
                             !.setup_sequence = msg.sequence,
                             !.state = "SETUP"]
             s1 == [s EXCEPT !.setup_phase = 0]
             r == initiate_setup_sequence(c1)
         IN  Return(r.ctx, s1, <<create_ack(msg)>> \o r.responses)
    ELSE Return(c, s, <<>>)

\* _handle_handshake starting setup on any request on the trigger topic
handle_handshake_any_request(c, s, msg) ==
    IF msg.subheader \in {PING_0D, PING_0F}
    THEN Return(c, s, ping_responses(msg))
    ELSE IF msg.subheader = SETUP_TRIGGER /\ is_request(msg)
    THEN LET c1 == [c EXCEPT !.setup_trigger_msg = Some(msg),
                             !.setup_sequence = msg.sequence,
                             !.state = "SETUP"]
             s1 == [s EXCEPT !.setup_phase = 0]
             r == initiate_setup_sequence(c1)
         IN  Return(r.ctx, s1, <<create_ack(msg)>> \o r.responses)
    ELSE Return(c, s, <<>>)

handle_handshake(c, s, msg) ==
    IF msg.subheader \in {PING_0D, PING_0F}
    THEN Return(c, s, ping_responses(msg))
    ELSE IF msg.subheader = SETUP_TRIGGER /\ msg.data = REQUEST_20
    THEN LET c1 == [c EXCEPT !.setup_trigger_msg = Some(msg),
                             !.setup_sequence = msg.sequence,
                             !.state = "SETUP"]
             s1 == [s EXCEPT !.setup_phase = 0]
             r == initiate_setup_sequence(c1)
         IN  Return(r.ctx, s1, <<create_ack(msg)>> \o r.responses)
    ELSE Return(c, s, <<>>)

send_setup_phase(c, phase) ==
    LET d == get_next_sequence(c)
        d2 == get_next_sequence(d.ctx)
    IN  IF phase = 1
        THEN [ctx |-> d.ctx,
              responses |-> <<create_request_to_ihu(A3_03_10, SETUP_10, d.seq, REQUEST_00)>>]
        ELSE IF phase = 2
        THEN [ctx |-> d.ctx,
              responses |-> <<create_request_to_ihu(A3_03_08, SETUP_08, d.seq, REQUEST_00)>>]
        ELSE IF phase = 3
        THEN [ctx |-> d2.ctx,
              responses |-> <<create_broadcast(A3_03_0A, STATUS_0A, BROADCAST_00),
                              create_broadcast(A4_04_00, STATUS_00, BROADCAST_20),
                              create_request_to_ihu(A3_03_08, SETUP_08, d2.seq, REQUEST_80)>>]
        ELSE [ctx |-> d.ctx, responses |-> <<>>]

\* _complete_setup without starting the broadcast timer
complete_setup_timer_not_armed(c, current_time) ==
    [ctx |-> [c EXCEPT !.state = "WIFI_SCANNING"],
     responses |-> <<create_broadcast(A4_04_00, STATUS_00, BROADCAST_20)>>
                   \o (IF c.setup_trigger_msg # None
                       THEN <<create_response(c.setup_trigger_msg[1], RESPONSE_20)>>
                       ELSE <<>>)]

\* _complete_setup returning the status broadcast alone
complete_setup_broadcast_only(c, current_time) ==
    [ctx |-> [c EXCEPT !.state = "WIFI_SCANNING", !.last_broadcast_time = current_time],
     responses |-> <<create_broadcast(A4_04_00, STATUS_00, BROADCAST_20)>>]

complete_setup(c, current_time) ==
    [ctx |-> [c EXCEPT !.state = "WIFI_SCANNING", !.last_broadcast_time = current_time],
     responses |-> <<create_broadcast(A4_04_00, STATUS_00, BROADCAST_20)>>
                   \o (IF c.setup_trigger_msg # None
                       THEN <<create_response(c.setup_trigger_msg[1], RESPONSE_20)>>
                       ELSE <<>>)]

\* _handle_setup answering pings as the other handlers do
handle_setup_answers_pings(c, s, msg, current_time) ==
    IF msg.subheader \in {PING_0D, PING_0F}
    THEN Return(c, s, ping_responses(msg))
    ELSE IF is_response(msg)
    THEN LET ack == <<create_ack(msg)>>
             phase == IF msg.subheader = SETUP_11 THEN 1
                      ELSE IF msg.subheader = SETUP_10 THEN 2
                      ELSE IF msg.subheader = SETUP_08 /\ s.setup_phase = 2 THEN 3
                      ELSE IF msg.subheader = SETUP_08 /\ s.setup_phase = 3 THEN 4
                      ELSE 0
             sent == send_setup_phase(c, phase)
             done == complete_setup(c, current_time)
         IN  IF phase \in {1, 2, 3}
             THEN Return(sent.ctx, [s EXCEPT !.setup_phase = phase], ack \o sent.responses)
             ELSE IF phase = 4
             THEN Return(done.ctx, [s EXCEPT !.setup_phase = 4], ack \o done.responses)
             ELSE Return(c, s, ack)
    ELSE Return(c, s, <<>>)

\* _handle_setup completing setup without recording phase 4
handle_setup_phase_left_at_three(c, s, msg, current_time) ==
    IF is_response(msg)
    THEN LET ack == <<create_ack(msg)>>
             phase == IF msg.subheader = SETUP_11 THEN 1
                      ELSE IF msg.subheader = SETUP_10 THEN 2
                      ELSE IF msg.subheader = SETUP_08 /\ s.setup_phase = 2 THEN 3
                      ELSE IF msg.subheader = SETUP_08 /\ s.setup_phase = 3 THEN 4
                      ELSE 0
             sent == send_setup_phase(c, phase)
             done == complete_setup(c, current_time)
         IN  IF phase \in {1, 2, 3}
             THEN Return(sent.ctx, [s EXCEPT !.setup_phase = phase], ack \o sent.responses)
             ELSE IF phase = 4
             THEN Return(done.ctx, s, ack \o done.responses)
             ELSE Return(c, s, ack)
    ELSE Return(c, s, <<>>)

handle_setup(c, s, msg, current_time) ==
    IF is_response(msg)
    THEN LET ack == <<create_ack(msg)>>
             phase == IF msg.subheader = SETUP_11 THEN 1
                      ELSE IF msg.subheader = SETUP_10 THEN 2
                      ELSE IF msg.subheader = SETUP_08 /\ s.setup_phase = 2 THEN 3
                      ELSE IF msg.subheader = SETUP_08 /\ s.setup_phase = 3 THEN 4
                      ELSE 0
             sent == send_setup_phase(c, phase)
             done == complete_setup(c, current_time)
         IN  IF phase \in {1, 2, 3}
             THEN Return(sent.ctx, [s EXCEPT !.setup_phase = phase], ack \o sent.responses)
             ELSE IF phase = 4
             THEN Return(done.ctx, [s EXCEPT !.setup_phase = 4], ack \o done.responses)
             ELSE Return(c, s, ack)
    ELSE Return(c, s, <<>>)

\* _start_wifi_connection setting the connected flag before the peer confirms
start_wifi_connection_flag_early(c, s, password_msg) ==
    LET d == get_next_sequence(c)
    IN  [ctx |-> [d.ctx EXCEPT !.wifi_connected = TRUE],
         sm |-> [s EXCEPT !.connection_complete_seq = Some(d.seq)],
         responses |->
           <<create_response(password_msg, WIFI_CONNECTING),
             create_broadcast(A3_03_0A, STATUS_0A, BROADCAST_80),
             create_message(A4_04_08, WIFI_PASSWORD, password_msg.sequence, PASSWORD_ACCEPTED),
             create_broadcast(AA_0A_01, CONN_AA01, BROADCAST_40),
             create_broadcast(AA_0A_07, CONN_AA07, BROADCAST_40),
             create_broadcast(AB_0B_01, CONN_AB01, BROADCAST_00),
             create_broadcast(A4_04_08, WIFI_STATUS, WIFI_STATUS_DATA),
             create_request_to_ihu(A3_03_08, SETUP_08, d.seq, REQUEST_80)>>]

\* _start_wifi_connection sending its request before the WiFi status
start_wifi_connection_request_early(c, s, password_msg) ==
    LET d == get_next_sequence(c)
    IN  [ctx |-> d.ctx,
         sm |-> [s EXCEPT !.connection_complete_seq = Some(d.seq)],
         responses |->
           <<create_response(password_msg, WIFI_CONNECTING),
             create_broadcast(A3_03_0A, STATUS_0A, BROADCAST_80),
             create_message(A4_04_08, WIFI_PASSWORD, password_msg.sequence, PASSWORD_ACCEPTED),
             create_broadcast(AA_0A_01, CONN_AA01, BROADCAST_40),
             create_broadcast(AA_0A_07, CONN_AA07, BROADCAST_40),
             create_broadcast(AB_0B_01, CONN_AB01, BROADCAST_00),
             create_request_to_ihu(A3_03_08, SETUP_08, d.seq, REQUEST_80),
             create_broadcast(A4_04_08, WIFI_STATUS, WIFI_STATUS_DATA)>>]

start_wifi_connection(c, s, password_msg) ==
    LET d == get_next_sequence(c)
    IN  [ctx |-> d.ctx,
         sm |-> [s EXCEPT !.connection_complete_seq = Some(d.seq)],
         responses |->
           <<create_response(password_msg, WIFI_CONNECTING),
             create_broadcast(A3_03_0A, STATUS_0A, BROADCAST_80),
             create_message(A4_04_08, WIFI_PASSWORD, password_msg.sequence, PASSWORD_ACCEPTED),
             create_broadcast(AA_0A_01, CONN_AA01, BROADCAST_40),
             create_broadcast(AA_0A_07, CONN_AA07, BROADCAST_40),
             create_broadcast(AB_0B_01, CONN_AB01, BROADCAST_00),
             create_broadcast(A4_04_08, WIFI_STATUS, WIFI_STATUS_DATA),
             create_request_to_ihu(A3_03_08, SETUP_08, d.seq, REQUEST_80)>>]

handle_wifi_scanning(c, s, msg) ==
    IF msg.subheader \in {PING_0D, PING_0F}
    THEN Return(c, s, ping_responses(msg))
    ELSE IF msg.subheader = WIFI_PASSWORD /\ is_request(msg)
    THEN LET dec == decode_wifi_password_message(msg)
             \* if password: None and the empty string are both false
             c1 == IF dec.password # None /\ dec.password[1] # <<>>
                   THEN [c EXCEPT !.wifi_password = dec.password[1]]
                   ELSE c
             s1 == [s EXCEPT !.wifi_connect_sequence = Some(msg.sequence)]
             c2 == [c1 EXCEPT !.state = "WIFI_CONNECTING"]
             conn == start_wifi_connection(c2, s1, msg)
         IN  IF dec.exc THEN Raise(c, s)
             ELSE Return(conn.ctx, conn.sm, <<create_ack(msg)>> \o conn.responses)
    ELSE Return(c, s, <<>>)

\* _handle_wifi_connecting without setting the connected flag
handle_wifi_connecting_flag_not_set(c, s, msg, current_time) ==
    IF msg.subheader = SETUP_08 /\ is_response(msg)
    THEN Return([c EXCEPT !.state = "WIFI_CONNECTED",
                          !.last_broadcast_time = current_time],
                s,
                <<create_ack(msg), create_broadcast(A4_04_02, WIFI_FINAL, WIFI_FINAL_DATA)>>)
    ELSE Return(c, s, <<>>)

\* _handle_wifi_connecting going back to scanning on anything but the
\* confirmation
handle_wifi_connecting_gives_up(c, s, msg, current_time) ==
    IF msg.subheader = SETUP_08 /\ is_response(msg)
    THEN Return([c EXCEPT !.state = "WIFI_CONNECTED",
                          !.wifi_connected = TRUE,
                          !.last_broadcast_time = current_time],
                s,
                <<create_ack(msg), create_broadcast(A4_04_02, WIFI_FINAL, WIFI_FINAL_DATA)>>)
    ELSE Return([c EXCEPT !.state = "WIFI_SCANNING"], s, <<create_ack(msg)>>)

handle_wifi_connecting(c, s, msg, current_time) ==
    IF msg.subheader = SETUP_08 /\ is_response(msg)
    THEN Return([c EXCEPT !.state = "WIFI_CONNECTED",
                          !.wifi_connected = TRUE,
                          !.last_broadcast_time = current_time],
                s,
                <<create_ack(msg), create_broadcast(A4_04_02, WIFI_FINAL, WIFI_FINAL_DATA)>>)
    ELSE Return(c, s, <<>>)

\* _handle_wifi_connected going back to scanning on new credentials
handle_wifi_connected_rescans(c, s, msg) ==
    IF msg.subheader \in {PING_0D, PING_0F}
    THEN Return(c, s, ping_responses(msg))
    ELSE IF msg.subheader = WIFI_PASSWORD /\ is_request(msg)
    THEN Return([c EXCEPT !.state = "WIFI_SCANNING", !.wifi_connected = FALSE],
                s, <<create_ack(msg)>>)
    ELSE Return(c, s, <<>>)

handle_wifi_connected(c, s, msg) ==
    IF msg.subheader \in {PING_0D, PING_0F}
    THEN Return(c, s, ping_responses(msg))
    ELSE Return(c, s, <<>>)

\* the _state_handlers table
state_handlers(c, s, msg, current_time) ==
    CASE c.state = "IDLE" -> handle_idle(c, s, msg)
      [] c.state = "HANDSHAKE" -> handle_handshake(c, s, msg)
      [] c.state = "SETUP" -> handle_setup(c, s, msg, current_time)
      [] c.state = "WIFI_SCANNING" -> handle_wifi_scanning(c, s, msg)
      [] c.state = "WIFI_CONNECTING" -> handle_wifi_connecting(c, s, msg, current_time)
      [] c.state = "WIFI_CONNECTED" -> handle_wifi_connected(c, s, msg)

process_message(c, s, payload_hex, current_time) ==
    LET parsed == parse_message(payload_hex)
        msg == parsed[1]
        c1 == IF msg.sequence # 0 THEN [c EXCEPT !.last_ihu_sequence = msg.sequence] ELSE c
    IN  IF parsed = None THEN Return(c, s, <<>>)
        ELSE IF is_ack(msg) THEN Return(c, s, <<>>)
        ELSE state_handlers(c1, s, msg, current_time)

\* ------------------------------------------------------- inbound payloads
\* the header the capture shows with each topic, and one that fits none
OTHER_HEADER == <<0,0,15,15,0,15,0,1,0,0,0,0,0,0>>    \* "00ff0f01000000"

HeaderOf(subheader) ==
    CASE subheader = PING_0D -> A4_04_0D
      [] subheader = PING_0F -> A3_03_0F
      [] subheader = SETUP_TRIGGER -> A4_04_00
      [] subheader = SETUP_11 -> A3_03_11
      [] subheader = SETUP_10 -> A3_03_10
      [] subheader = SETUP_08 -> A3_03_08
      [] subheader = WIFI_PASSWORD -> A4_04_08
      [] OTHER -> A4_04_0D

\* a datagram as the peer builds it: the length byte agrees with the data
Payload(header, subheader, sequence, data) ==
    raw(create_message(header, subheader, sequence, data))

\* WiFi credential payloads: "02020000", a length byte, text, trailing bytes
CRED_LAIKINAS ==            \* "02020000086c61696b696e617319d195cdd185cc"
    <<0,2,0,2,0,0,0,0,0,8,6,12,6,1,6,9,6,11,6,9,6,14,6,1,7,3,
      1,9,13,1,9,5,12,13,13,1,8,5,12,12>>
CRED_TWO_BYTE == <<0,2,0,2,0,0,0,0,0,2,12,3,10,9>>      \* "0202000002c3a9"
CRED_NO_LENGTH == <<0,2,0,2,0,0,0,0>>                   \* "02020000"
CRED_SHORT == <<0,2,0,2,0,0,0,0,0,3,6,12,6,1>>          \* "02020000036c61"
CRED_HALF_BYTE == <<0,2,0,2,0,0,0,0,0,1,6,1,7>>         \* "0202000001617"

InSubheaders ==
    {PING_0D, PING_0F, SETUP_TRIGGER, SETUP_11, SETUP_10, SETUP_08, WIFI_PASSWORD, WIFI_SCAN}

CredentialData ==
    {CRED_LAIKINAS, CRED_TWO_BYTE, CRED_NO_LENGTH, CRED_SHORT, CRED_HALF_BYTE, REQUEST_00}

\* payloads parse_message rejects: empty, 23 characters, a sequence field
\* that is not hex
MalformedPayloads ==
    {<<>>,
     SubSeq(Payload(A4_04_0D, PING_0D, 75, <<>>), 1, 23),
     A4_04_0D \o <<0,8>> \o PING_0D \o <<4,16>> \o REQUEST_BASIC}

\* a ping request with a non-hex character in the header, and one with a
\* non-hex character in the data
NonHexPayloads ==
    {<<16,16>> \o SubSeq(Payload(A4_04_0D, PING_0D, 75, REQUEST_BASIC), 3, 32),
     SubSeq(Payload(A4_04_0D, PING_0D, 75, REQUEST_BASIC), 1, 30) \o <<16,16>>}

\* every topic as an acknowledgment, a request and a response with the
\* sequence 0x4b of the capture; the setup trigger; sequence 0; the
\* credential requests; a header the capture never shows; malformed input
Inputs ==
    {Payload(HeaderOf(sub), sub, 75, d) :
        sub \in InSubheaders, d \in {ACK_DATA, REQUEST_BASIC, RESPONSE_SHORT}}
    \cup {Payload(A4_04_00, SETUP_TRIGGER, 75, REQUEST_20),
          Payload(A4_04_0D, PING_0D, 0, REQUEST_BASIC),
          Payload(A3_03_08, SETUP_08, 0, RESPONSE_80)}
    \cup {Payload(A4_04_08, WIFI_PASSWORD, 75, d) : d \in CredentialData}
    \cup {Payload(OTHER_HEADER, PING_0D, 75, ACK_DATA),
          Payload(OTHER_HEADER, SETUP_TRIGGER, 75, REQUEST_20),
          Payload(OTHER_HEADER, WIFI_PASSWORD, 75, CRED_LAIKINAS)}
    \cup MalformedPayloads
    \cup NonHexPayloads

\* the messages of one session as the capture shows it: both pings, the
\* setup trigger, the peer's responses to the setup requests, the credentials
SessionInputs ==
    {Payload(HeaderOf(sub), sub, 75, REQUEST_BASIC) : sub \in {PING_0D, PING_0F}}
    \cup {Payload(A4_04_00, SETUP_TRIGGER, 75, REQUEST_20)}
    \cup {Payload(HeaderOf(sub), sub, 75, RESPONSE_SHORT) :
              sub \in {SETUP_11, SETUP_10, SETUP_08}}
    \cup {Payload(A4_04_08, WIFI_PASSWORD, 75, CRED_LAIKINAS)}

\* ------------------------------------------------------------ the system
Init ==
    /\ ctx = VCMContext
    /\ sm = VCMStateMachine
    /\ now = 0
    /\ op = "init"
    /\ inp = None
    /\ responses = <<>>
    /\ raised = FALSE
    /\ broadcast_log = <<>>
    /\ ihu_addr = None
    /\ sendto = <<>>
    /\ sender = None
    /\ result = None
    /\ last_request = None

\* draws made from the device counter so far
Draws(c) == (c.next_vcm_sequence - 80) % 256

\* the sequence of the latest request among those sent so far and the
\* messages rs a call has returned
LatestRequest(before, rs) ==
    LET at == {i \in 1..Len(rs) : is_request(rs[i])}
    IN  IF at = {} THEN before
        ELSE Some(rs[CHOOSE i \in at : \A j \in at : j <= i].sequence)

\* one call of process_message on one of the payloads
ProcessMessageFrom(payloads, max_draws) ==
    \E payload_hex \in payloads :
        \E r \in {process_message(ctx, sm, payload_hex, now)} :
            /\ Draws(r.ctx) <= max_draws
            /\ r.sm.handshake_count <= MaxHandshakeCount
            /\ ctx' = r.ctx
            /\ sm' = r.sm
            /\ responses' = r.responses
            /\ raised' = r.raised
            /\ op' = "process_message"
            /\ inp' = Some(payload_hex)
            /\ now' = now
            /\ broadcast_log' = broadcast_log
            /\ last_request' = LatestRequest(last_request, r.responses)
            /\ UNCHANGED <<ihu_addr, sendto, sender, result>>

ProcessMessage == ProcessMessageFrom(Inputs, MaxDraws)

\* one call of tick from the timer loop
Tick ==
    \E r \in {tick(ctx, sm, now)} :
        /\ ctx' = r.ctx
        /\ sm' = r.sm
        /\ responses' = r.responses
        /\ raised' = r.raised
        /\ op' = "tick"
        /\ inp' = None
        /\ now' = now
        /\ broadcast_log' =
              broadcast_log \o [i \in 1..Len(r.responses) |-> [time |-> now, msg |-> r.responses[i]]]
        /\ UNCHANGED <<ihu_addr, sendto, sender, result, last_request>>

\* the clock moves on between two calls
AdvanceUpTo(limit) ==
    /\ now < limit
    /\ now' = now + 1
    /\ op' = "advance"
    /\ inp' = None
    /\ responses' = <<>>
    /\ raised' = FALSE
    /\ UNCHANGED <<ctx, sm, broadcast_log, ihu_addr, sendto, sender, result, last_request>>

Advance == AdvanceUpTo(MaxTime)

Next == ProcessMessage \/ Tick \/ Advance

Spec == Init /\ [][Next]_vars

\* a whole session on a clock that runs long enough for the timer to fire
\* more than once
SessionProcessMessage == ProcessMessageFrom(SessionInputs, MaxDraws)

SessionAdvance == AdvanceUpTo(MaxSessionTime)

SessionNext == SessionProcessMessage \/ Tick \/ SessionAdvance

SessionSpec == Init /\ [][SessionNext]_vars

\* a session in which the peer repeats its setup responses until the device
\* counter has gone round
CounterProcessMessage == ProcessMessageFrom(SessionInputs, MaxCounterDraws)

CounterNext == CounterProcessMessage \/ Tick

CounterSpec == Init /\ [][CounterNext]_vars

\* The timer loop running for ever.  The code reads the clock only to store
\* it in last_broadcast_time and to compare current_time with that field, so
\* LiveSpec measures time from the moment last_broadcast_time was last set:
\* after every call the field is 0 and now is the time elapsed since, and
\* waits longer than MaxElapsed are not told apart.  The log of broadcasts,
\* which would grow for ever, is not kept.
LiveProcessMessage ==
    \E payload_hex \in SessionInputs :
        \E r \in {process_message(ctx, sm, payload_hex, now)} :
            /\ Draws(r.ctx) <= MaxDraws
            /\ r.sm.handshake_count <= MaxHandshakeCount
            /\ ctx' = [r.ctx EXCEPT !.last_broadcast_time = 0]
            /\ now' = now - r.ctx.last_broadcast_time
            /\ sm' = r.sm
            /\ responses' = r.responses
            /\ raised' = r.raised
            /\ op' = "process_message"
            /\ inp' = Some(payload_hex)
            /\ broadcast_log' = broadcast_log
            /\ last_request' = LatestRequest(last_request, r.responses)
            /\ UNCHANGED <<ihu_addr, sendto, sender, result>>

\* one turn of the loop of _tick_loop
LiveTick ==
    \E r \in {tick(ctx, sm, now)} :
        /\ ctx' = [r.ctx EXCEPT !.last_broadcast_time = 0]
        /\ now' = now - r.ctx.last_broadcast_time
        /\ sm' = r.sm
        /\ responses' = r.responses
        /\ raised' = r.raised
        /\ op' = "tick"
        /\ inp' = None
        /\ broadcast_log' = broadcast_log
        /\ UNCHANGED <<ihu_addr, sendto, sender, result, last_request>>

LiveAdvance == AdvanceUpTo(MaxElapsed)

LiveNext == LiveProcessMessage \/ LiveTick \/ LiveAdvance

\* the clock keeps advancing and the loop keeps calling tick
LiveSpec ==
    /\ Init
    /\ [][LiveNext]_vars
    /\ WF_vars(LiveTick)
    /\ WF_vars(LiveAdvance)

\* ------------------------------------------------------------ VCMProtocol
IHU_IP == "198.18.34.1"
IHU_PORT == 50000

\* the two liveness datagrams datagram_received drops
LIVENESS_14 ==       \* "ffffff010000000cff0106140206010003000000"
    <<15,15,15,15,15,15,0,1,0,0,0,0,0,0,0,12,15,15,0,1,0,6,1,4,0,2,0,6,0,1,0,0,0,3,0,0,0,0,0,0>>
LIVENESS_32 ==       \* "ffffff010000000cff0106320206010001000000"
    <<15,15,15,15,15,15,0,1,0,0,0,0,0,0,0,12,15,15,0,1,0,6,3,2,0,2,0,6,0,1,0,0,0,1,0,0,0,0,0,0>>

\* datagram_received knowing one of the two liveness datagrams only
LIVENESS_PACKETS_first_only == {LIVENESS_14}

LIVENESS_PACKETS == {LIVENESS_14, LIVENESS_32}

\* _send_message: the datagram handed to transport.sendto; the transport is
\* there, connection_made having run before the first datagram and before
\* the tick loop starts
send_message(addr, msg) ==
    LET target_addr == IF addr # None THEN addr[1] ELSE <<IHU_IP, IHU_PORT>>
        payload_bytes == raw_bytes(msg)
    IN  [exc |-> payload_bytes.exc,
         datagram |-> [data |-> payload_bytes.value, addr |-> target_addr]]

\* the loop over the messages stopping after the first
send_responses_first_only(addr, msgs) ==
    [sent |-> [i \in 1..Min(1, Len(msgs)) |-> send_message(addr, msgs[i]).datagram],
     raised |-> msgs # <<>> /\ send_message(addr, msgs[1]).exc]

\* for response in responses: self._send_message(response); an exception
\* of a send ends the loop
send_responses(addr, msgs) ==
    LET failing == {i \in 1..Len(msgs) : send_message(addr, msgs[i]).exc}
        n == IF failing = {} THEN Len(msgs)
             ELSE (CHOOSE i \in failing : \A j \in failing : i <= j) - 1
    IN  [sent |-> [i \in 1..n |-> send_message(addr, msgs[i]).datagram],
         raised |-> failing # {}]

\* datagram_received remembering the sender after the liveness test
datagram_received_addr_after_drop(ihu, c, s, data, addr, current_time) ==
    LET payload_hex == bytes_hex(data)
        r == process_message(c, s, payload_hex, current_time)
        out == send_responses(Some(addr), r.responses)
    IN  IF payload_hex \in LIVENESS_PACKETS
        THEN [ihu_addr |-> ihu, ctx |-> c, sm |-> s,
              responses |-> <<>>, sent |-> <<>>, raised |-> FALSE]
        ELSE IF r.raised
        THEN [ihu_addr |-> Some(addr), ctx |-> r.ctx, sm |-> r.sm,
              responses |-> <<>>, sent |-> <<>>, raised |-> TRUE]
        ELSE [ihu_addr |-> Some(addr), ctx |-> r.ctx, sm |-> r.sm,
              responses |-> r.responses, sent |-> out.sent, raised |-> out.raised]

\* VCMProtocol.datagram_received
datagram_received(ihu, c, s, data, addr, current_time) ==
    LET payload_hex == bytes_hex(data)
        r == process_message(c, s, payload_hex, current_time)
        out == send_responses(Some(addr), r.responses)
    IN  IF payload_hex \in LIVENESS_PACKETS
        THEN [ihu_addr |-> Some(addr), ctx |-> c, sm |-> s,
              responses |-> <<>>, sent |-> <<>>, raised |-> FALSE]
        ELSE IF r.raised
        THEN [ihu_addr |-> Some(addr), ctx |-> r.ctx, sm |-> r.sm,
              responses |-> <<>>, sent |-> <<>>, raised |-> TRUE]
        ELSE [ihu_addr |-> Some(addr), ctx |-> r.ctx, sm |-> r.sm,
              responses |-> r.responses, sent |-> out.sent, raised |-> out.raised]

\* one turn of VCMSimulator._tick_loop up to its await: the call of tick and
\* the sends
tick_loop(ihu, c, s, current_time) ==
    LET r == tick(c, s, current_time)
        out == send_responses(ihu, r.responses)
    IN  [ihu_addr |-> ihu, ctx |-> r.ctx, sm |-> r.sm,
         responses |-> r.responses, sent |-> out.sent, raised |-> out.raised]

\* the peer's address and another one
Addresses == {<<"198.18.34.1", 50000>>, <<"198.18.34.7", 50007>>}

\* the datagrams of a session, the two liveness datagrams and the three
\* bytes of test_short_payload
Datagrams ==
    {bytes_fromhex(p).value : p \in SessionInputs \cup {LIVENESS_14, LIVENESS_32}}
    \cup {<<0, 164, 4>>}

\* The event loop runs one callback at a time: datagram_received has no
\* await, and _tick_loop awaits only after it has sent what tick returned,
\* so a datagram and a turn of the loop are one step each.
DatagramReceived ==
    \E data \in Datagrams, addr \in Addresses :
        \E r \in {datagram_received(ihu_addr, ctx, sm, data, addr, now)} :
            /\ Draws(r.ctx) <= MaxDraws
            /\ r.sm.handshake_count <= MaxHandshakeCount
            /\ ihu_addr' = r.ihu_addr
            /\ ctx' = r.ctx
            /\ sm' = r.sm
            /\ responses' = r.responses
            /\ sendto' = r.sent
            /\ raised' = r.raised
            /\ op' = "datagram_received"
            /\ inp' = Some(data)
            /\ sender' = Some(addr)
            /\ last_request' = LatestRequest(last_request, r.responses)
            /\ UNCHANGED <<now, broadcast_log, result>>

TickLoop ==
    \E r \in {tick_loop(ihu_addr, ctx, sm, now)} :
        /\ ihu_addr' = r.ihu_addr
        /\ ctx' = r.ctx
        /\ sm' = r.sm
        /\ responses' = r.responses
        /\ sendto' = r.sent
        /\ raised' = r.raised
        /\ op' = "tick"
        /\ inp' = None
        /\ UNCHANGED <<now, broadcast_log, sender, result, last_request>>

TransportAdvance == AdvanceUpTo(MaxTime)

TransportNext == DatagramReceived \/ TickLoop \/ TransportAdvance

TransportSpec == Init /\ [][TransportNext]_vars

\* ------------------------------------------------------------- the codec
\* the functions of vcm_protocol applied to arguments of their own
CodecHeaders == {A4_04_0D, OTHER_HEADER}

CodecSubheaders == {PING_0D, WIFI_PASSWORD}

CodecSequences == {0, 10, 255}

\* n bytes of data: 02 70 00 00 and then the bytes 4, 5, ..
DataOfBytes(n) ==
    bytes_hex([i \in 1..n |-> IF i = 1 THEN 2 ELSE IF i = 2 THEN 112
                              ELSE IF i <= 4 THEN 0 ELSE i % 256])

\* datagrams of 11 to 17 bytes, their length byte right or wrong
CodecDatagrams ==
    {bytes_fromhex(h).value \o <<l>> \o bytes_fromhex(sub).value \o <<q>> \o d :
        h \in CodecHeaders, l \in {0, 4, 10, 255}, sub \in CodecSubheaders,
        q \in {0, 9, 75, 255},
        d \in {<<>>, <<2>>, <<2, 112, 0, 0>>, <<2, 2, 0, 0, 32>>}}
    \cup {<<0, 164, 4, 13, 0, 0, 0, 8, 164, 13, 0>>}

\* messages around the acknowledgment sentinel
CodecMessages ==
    {create_message(A4_04_0D, PING_0D, q, d) :
        q \in {0, 75},
        d \in {ACK_DATA, ACK_DATA \o <<0,0>>, ACK_DATA \o ACK_DATA, <<0,2,7,0>>,
               <<0,2,7,0,0,0,0>>, <<0,2,7,0,0,0,0,1>>, <<0,0>> \o ACK_DATA, <<>>,
               REQUEST_BASIC, RESPONSE_SHORT}}
    \cup {VCMMessage(A4_04_0D, l, PING_0D, 75, ACK_DATA) : l \in {0, 9}}

CreateMessage ==
    /\ op = "init"
    /\ \E header \in CodecHeaders, subheader \in CodecSubheaders,
          sequence \in CodecSequences, n \in 0..MaxPayloadBytes :
          \E data \in {DataOfBytes(n)} :
              /\ op' = "create_message"
              /\ inp' = Some(<<header, subheader, sequence, data>>)
              /\ result' = Some(create_message(header, subheader, sequence, data))
    /\ UNCHANGED <<ctx, sm, now, responses, raised, broadcast_log, ihu_addr, sendto, sender,
                   last_request>>

\* parse_message on the encoding of the message just built
ParseRaw ==
    /\ op = "create_message"
    /\ \E payload_hex \in {raw(result[1])} :
          /\ op' = "parse_message"
          /\ inp' = Some(payload_hex)
          /\ result' = parse_message(payload_hex)
    /\ UNCHANGED <<ctx, sm, now, responses, raised, broadcast_log, ihu_addr, sendto, sender,
                   last_request>>

\* parse_message(data.hex()).raw_bytes, None when either step fails
Reencode ==
    /\ op = "init"
    /\ \E data \in CodecDatagrams :
          \E parsed \in {parse_message(bytes_hex(data))} :
              /\ op' = "raw_bytes"
              /\ inp' = Some(data)
              /\ result' = IF parsed = None \/ raw_bytes(parsed[1]).exc THEN None
                            ELSE Some(raw_bytes(parsed[1]).value)
    /\ UNCHANGED <<ctx, sm, now, responses, raised, broadcast_log, ihu_addr, sendto, sender,
                   last_request>>

IsAck ==
    /\ op = "init"
    /\ \E m \in CodecMessages :
          /\ op' = "is_ack"
          /\ inp' = Some(m)
          /\ result' = Some(is_ack(m))
    /\ UNCHANGED <<ctx, sm, now, responses, raised, broadcast_log, ihu_addr, sendto, sender,
                   last_request>>

CodecNext == CreateMessage \/ ParseRaw \/ Reencode \/ IsAck

CodecSpec == Init /\ [][CodecNext]_vars

\* ------------------------------------------------- reading a behaviour
\* the message of the last process_message call, when its payload parsed
InMsgOk == op = "process_message" /\ inp # None /\ parse_message(inp[1]) # None
InMsg == parse_message(inp[1])[1]

\* the same for the call a step makes
NextMsgOk == op' = "process_message" /\ inp' # None /\ parse_message(inp'[1]) # None
NextMsg == parse_message(inp'[1])[1]

\* the step is process_message on a peer response addressed to the topic
ResponseOn(subheader) ==
    NextMsgOk /\ startswith(NextMsg.data, <<0,2,0,4>>) /\ NextMsg.subheader = subheader

\* the list holds a message on the topic with the data
Emits(rs, subheader, data) ==
    \E i \in 1..Len(rs) : rs[i].subheader = subheader /\ rs[i].data = data

\* the list holds a device-initiated request (role prefix 0200 or 0202)
EmitsRequest(rs) ==
    \E i \in 1..Len(rs) :
        SubSeq(rs[i].data, 1, 4) = <<0,2,0,0>> \/ SubSeq(rs[i].data, 1, 4) = <<0,2,0,2>>

\* the byte that follows the four-byte role prefix of a broadcast
StatusByte(m) == (16 * m.data[9]) + m.data[10]

\* ---------------------------------------------------------------- claims

\* C1: in every state, process_message on a message whose data is exactly
\* 02700000 returns the empty list, whatever its header, subheader, sequence.
C1_AckYieldsNothing ==
    (InMsgOk /\ InMsg.data = <<0,2,7,0,0,0,0,0>>) => responses = <<>>

\* an acknowledgment on a ping topic, which every handler of the state
\* would answer, was processed in WifiConnected
C1_Witness ==
    /\ InMsgOk
    /\ InMsg.data = <<0,2,7,0,0,0,0,0>>
    /\ InMsg.subheader \in {PING_0D, PING_0F}
    /\ ctx.state = "WIFI_CONNECTED"
    /\ responses = <<>>

C3_TriggerStartsSetup ==
    [][(ctx.state = "HANDSHAKE" /\ NextMsgOk
        /\ NextMsg.subheader = SETUP_TRIGGER /\ NextMsg.data = <<0,2,0,2,0,0,0,0,2,0>>)
       => (ctx'.state = "SETUP"
           /\ \E i \in 1..Len(responses') : responses'[i].subheader = SETUP_11)
      ]_vars

\* the trigger has just been answered with the a31102 request
C3_Witness ==
    /\ InMsgOk
    /\ InMsg.subheader = SETUP_TRIGGER
    /\ InMsg.data = REQUEST_20
    /\ ctx.state = "SETUP"
    /\ sm.setup_phase = 0
    /\ Emits(responses, SETUP_11, REQUEST_00)

\* C4: from Setup as the trigger leaves it, peer responses on a31102, a31002,
\* a30802 and a30802 again make the machine emit the a31002 request, the
\* a30802 request and a second a30802 request, and the last one ends in
\* WifiScanning with last_broadcast_time set to the time of that step.
C4_SetupChain ==
    [][ctx.state = "SETUP" =>
         /\ (sm.setup_phase = 0 /\ ResponseOn(SETUP_11))
            => (ctx'.state = "SETUP" /\ sm'.setup_phase = 1
                /\ Emits(responses', SETUP_10, REQUEST_00))
         /\ (sm.setup_phase = 1 /\ ResponseOn(SETUP_10))
            => (ctx'.state = "SETUP" /\ sm'.setup_phase = 2
                /\ Emits(responses', SETUP_08, REQUEST_00))
         /\ (sm.setup_phase = 2 /\ ResponseOn(SETUP_08))
            => (ctx'.state = "SETUP" /\ sm'.setup_phase = 3
                /\ Emits(responses', SETUP_08, REQUEST_80))
         /\ (sm.setup_phase = 3 /\ ResponseOn(SETUP_08))
            => (ctx'.state = "WIFI_SCANNING" /\ ctx'.last_broadcast_time = now')
       ]_vars

\* the second a30802 response has just completed the setup, at a time
\* other than the timer's initial value
C4_Witness ==
    /\ InMsgOk
    /\ InMsg.subheader = SETUP_08
    /\ is_response(InMsg)
    /\ ctx.state = "WIFI_SCANNING"
    /\ Emits(responses, STATUS_00, BROADCAST_20)
    /\ now > 0
    /\ ctx.last_broadcast_time = now

\* the topic whose request is outstanding in a setup phase
Outstanding(phase) ==
    CASE phase = 0 -> SETUP_11
      [] phase = 1 -> SETUP_10
      [] OTHER -> SETUP_08

\* C5: in Setup, a response on a setup topic other than the one whose
\* request is outstanding does not advance the setup phase and causes no
\* new device-initiated request.
C5_OutOfOrderIgnored ==
    [][(ctx.state = "SETUP"
        /\ \E t \in {SETUP_11, SETUP_10, SETUP_08} :
              t # Outstanding(sm.setup_phase) /\ ResponseOn(t))
       => (sm'.setup_phase = sm.setup_phase /\ ~EmitsRequest(responses'))
      ]_vars

\* C6: in Setup, a second response on a31102 or a31002 after the phase has
\* moved past that topic leaves the phase unchanged, draws nothing from the
\* sequence counter and emits no device-initiated request.
C6_DuplicateIgnored ==
    [][(ctx.state = "SETUP"
        /\ \/ (sm.setup_phase >= 1 /\ ResponseOn(SETUP_11))
           \/ (sm.setup_phase >= 2 /\ ResponseOn(SETUP_10)))
       => (sm'.setup_phase = sm.setup_phase
           /\ ctx'.next_vcm_sequence = ctx.next_vcm_sequence
           /\ ~EmitsRequest(responses'))
      ]_vars

\* UTF-8 of a text of code points below 0x800, and bytes as hex digits
RECURSIVE Utf8Encode(_)
Utf8Encode(t) ==
    IF t = <<>> THEN <<>>
    ELSE (IF t[1] < 128 THEN <<t[1]>>
          ELSE <<192 + (t[1] \div 64), 128 + (t[1] % 64)>>) \o Utf8Encode(Tail(t))

RECURSIVE BytesToHex(_)
BytesToHex(bs) ==
    IF bs = <<>> THEN <<>>
    ELSE <<bs[1] \div 16, bs[1] % 16>> \o BytesToHex(Tail(bs))

\* "laikinas", and a text with a two-byte character
TEXT_LAIKINAS == <<108, 97, 105, 107, 105, 110, 97, 115>>
TEXT_E_ACUTE == <<233>>
\* the bytes that follow the text in the capture, and none
TrailingBytes == {<<>>, <<25, 209, 149, 205, 209, 133, 204>>}

\* the data of a credential request for the text
CredentialFor(t, trailing) ==
    <<0,2,0,2,0,0,0,0>> \o BytesToHex(<<Len(Utf8Encode(t))>> \o Utf8Encode(t) \o trailing)

\* C7: in WifiScanning, a request on a40802 whose data is 02020000, a length
\* byte n, n bytes of non-empty text t and optional trailing bytes stores
\* exactly t as the password and moves to WifiConnecting; the captured
\* payload stores "laikinas".
C7_CredentialStored ==
    [][(ctx.state = "WIFI_SCANNING" /\ NextMsgOk /\ NextMsg.subheader = WIFI_PASSWORD)
       => /\ \A t \in {TEXT_LAIKINAS, TEXT_E_ACUTE} : \A trailing \in TrailingBytes :
                NextMsg.data = CredentialFor(t, trailing)
                => (ctx'.wifi_password = t /\ ctx'.state = "WIFI_CONNECTING")
          /\ NextMsg.data = CRED_LAIKINAS => ctx'.wifi_password = TEXT_LAIKINAS
      ]_vars

\* the captured credential request has just been accepted in WifiScanning
C7_Witness ==
    /\ InMsgOk
    /\ InMsg.subheader = WIFI_PASSWORD
    /\ InMsg.data = CredentialFor(TEXT_LAIKINAS, <<25, 209, 149, 205, 209, 133, 204>>)
    /\ ctx.state = "WIFI_CONNECTING"
    /\ Len(responses) = 9
    /\ ctx.wifi_password = TEXT_LAIKINAS

\* a credential payload that does not start with 02020000, has no length
\* byte, does not consist of whole bytes, or declares more text bytes than
\* it carries
MalformedCredential(d) ==
    \/ SubSeq(d, 1, 8) # <<0,2,0,2,0,0,0,0>>
    \/ Len(d) < 10
    \/ Len(d) % 2 = 1
    \/ (Len(d) - 10) \div 2 < (16 * d[9]) + d[10]

\* topic and data of the acknowledgment and the connection sequence
ConnectionSequence ==
    << <<WIFI_PASSWORD, ACK_DATA>>,
       <<WIFI_PASSWORD, WIFI_CONNECTING>>,
       <<STATUS_0A, BROADCAST_80>>,
       <<WIFI_PASSWORD, PASSWORD_ACCEPTED>>,
       <<CONN_AA01, BROADCAST_40>>,
       <<CONN_AA07, BROADCAST_40>>,
       <<CONN_AB01, BROADCAST_00>>,
       <<WIFI_STATUS, WIFI_STATUS_DATA>>,
       <<SETUP_08, REQUEST_80>> >>

\* C8: in WifiScanning, a request on a40802 with a malformed credential
\* payload raises no error, leaves the stored password as it was, returns
\* the acknowledgment and the complete connection sequence, and moves the
\* state to WifiConnecting.
C8_MalformedCredentialProceeds ==
    [][(ctx.state = "WIFI_SCANNING" /\ NextMsgOk /\ NextMsg.subheader = WIFI_PASSWORD
        /\ (SubSeq(NextMsg.data, 1, 4) = <<0,2,0,0>> \/ SubSeq(NextMsg.data, 1, 4) = <<0,2,0,2>>)
        /\ MalformedCredential(NextMsg.data))
       => /\ ~raised'
          /\ ctx'.wifi_password = ctx.wifi_password
          /\ ctx'.state = "WIFI_CONNECTING"
          /\ Len(responses') = 9
          /\ \A i \in 1..9 : <<responses'[i].subheader, responses'[i].data>> = ConnectionSequence[i]
      ]_vars

\* a credential request that is not made of whole bytes has just been
\* answered with the connection sequence, the password still the default
C8_Witness ==
    /\ InMsgOk
    /\ InMsg.subheader = WIFI_PASSWORD
    /\ InMsg.data = CRED_HALF_BYTE
    /\ ctx.state = "WIFI_CONNECTING"
    /\ Len(responses) = 9
    /\ ctx.wifi_password = <<>>
    /\ ~raised

\* C9: in WifiConnecting, a peer response on a30802 moves the state to
\* WifiConnected, sets the connected flag and re-arms the broadcast timer;
\* a tick in WifiConnected at which the interval has elapsed returns a
\* broadcast on a40d05 whose status byte is 0x40.
C9_ConnectedBroadcast ==
    [][/\ (ctx.state = "WIFI_CONNECTING" /\ ResponseOn(SETUP_08))
          => (ctx'.state = "WIFI_CONNECTED" /\ ctx'.wifi_connected
              /\ ctx'.last_broadcast_time = now')
       /\ (ctx.state = "WIFI_CONNECTED" /\ op' = "tick"
           /\ now' - ctx.last_broadcast_time >= 5)
          => (Len(responses') = 1 /\ responses'[1].subheader = WIFI_SCAN
              /\ StatusByte(responses'[1]) = 64)
      ]_vars

\* a tick in WifiConnected has just emitted the connected broadcast
C9_Witness ==
    /\ op = "tick"
    /\ ctx.state = "WIFI_CONNECTED"
    /\ ctx.wifi_connected
    /\ Len(responses) = 1
    /\ StatusByte(responses[1]) = 64
    /\ ctx.last_broadcast_time = now

\* C10: in WifiScanning, tick returns nothing while less than 5 time units
\* have passed since last_broadcast_time, and from 5 on exactly one message:
\* the broadcast on a40d05 with sequence 0 and status byte 0x00.
C10_ScanningTick ==
    [][(ctx.state = "WIFI_SCANNING" /\ op' = "tick")
       => IF now' - ctx.last_broadcast_time < 5
          THEN responses' = <<>>
          ELSE /\ Len(responses') = 1
               /\ responses'[1].subheader = WIFI_SCAN
               /\ responses'[1].sequence = 0
               /\ SubSeq(responses'[1].data, 1, 4) = <<0,2,0,5>>
               /\ StatusByte(responses'[1]) = 0
      ]_vars

\* a tick in WifiScanning has just emitted the scan broadcast at time 5: the
\* clock starts at 0, so exactly the interval had elapsed
C10_Witness ==
    /\ op = "tick"
    /\ ctx.state = "WIFI_SCANNING"
    /\ Len(responses) = 1
    /\ StatusByte(responses[1]) = 0
    /\ now = 5

\* ------------------------------------------------------------------ C11
\* C11: a tick that emits a broadcast sets last_broadcast_time to the
\* current time, and any two broadcasts tick emits in a session are at least
\* broadcast_interval apart, the Scanning broadcast followed by the
\* Connected one included; two ticks at the same instant therefore never
\* both emit.
C11_BroadcastSpacing ==
    /\ (op = "tick" /\ responses # <<>>) => ctx.last_broadcast_time = now
    /\ \A i, j \in 1..Len(broadcast_log) :
          i < j => broadcast_log[j].time - broadcast_log[i].time >= ctx.broadcast_interval

\* tick has emitted in WifiScanning and again in WifiConnected
C11_Witness ==
    /\ op = "tick"
    /\ Len(responses) = 1
    /\ Len(broadcast_log) = 2
    /\ broadcast_log[1].msg.data = SSID_SCANNING
    /\ broadcast_log[2].msg.data = SSID_CONNECTED
    /\ broadcast_log[2].msg = responses[1]

\* ------------------------------------------------------------------ C12
\* the broadcast is due: the state broadcasts and the interval has elapsed
BroadcastDue(c, current_time) ==
    /\ c.state \in {"WIFI_SCANNING", "WIFI_CONNECTED"}
    /\ current_time - c.last_broadcast_time >= c.broadcast_interval

\* C12: tick never changes the operational state, and when no broadcast is
\* due (Idle, Handshake, Setup, WifiConnecting at any time; WifiScanning and
\* WifiConnected before the interval has elapsed) it returns the empty list
\* and leaves every field of the context and of the state machine unchanged.
C12_TickNoOp ==
    [][op' = "tick" =>
          /\ ctx'.state = ctx.state
          /\ ~BroadcastDue(ctx, now') =>
                /\ responses' = <<>>
                /\ raised' = FALSE
                /\ ctx' = ctx
                /\ sm' = sm]_vars

\* tick has run in Setup with more than the interval on the clock
C12_Witness ==
    /\ op = "tick"
    /\ ctx.state = "SETUP"
    /\ now - ctx.last_broadcast_time >= ctx.broadcast_interval
    /\ responses = <<>>

\* ------------------------------------------------------------------ C13
Broadcasting == ctx.state \in {"WIFI_SCANNING", "WIFI_CONNECTED"}

TickEmitted == op = "tick" /\ responses # <<>>

\* C13: with the clock advancing and the timer loop calling tick for ever,
\* a session that is in WifiScanning or WifiConnected gets a broadcast from
\* tick unless it leaves these states, and a session that stays in them for
\* ever gets broadcasts again and again.
C13_BroadcastsKeepComing ==
    /\ Broadcasting ~> (TickEmitted \/ ~Broadcasting)
    /\ <>[]Broadcasting => []<>TickEmitted

\* tick has emitted the broadcast of WifiConnected, the state no message
\* leaves
C13_Witness ==
    /\ TickEmitted
    /\ ctx.state = "WIFI_CONNECTED"
    /\ responses[1].data = SSID_CONNECTED
    /\ now = ctx.last_broadcast_time

\* ------------------------------------------------------------------ C14
\* C14: in every state, process_message on an input of fewer than 24
\* characters, the empty input included, returns the empty list, raises
\* nothing and leaves every field of the context and of the state machine
\* unchanged.
C14_ShortInputDiscarded ==
    [][(op' = "process_message" /\ Len(inp'[1]) < 24) =>
          /\ responses' = <<>>
          /\ raised' = FALSE
          /\ ctx' = ctx
          /\ sm' = sm]_vars

\* a payload of 23 characters has been handed over while the device waits
\* for the end of the connection
C14_Witness ==
    /\ op = "process_message"
    /\ Len(inp[1]) = 23
    /\ ctx.state = "WIFI_CONNECTING"
    /\ responses = <<>>
    /\ raised = FALSE

\* ------------------------------------------------------------------ C15
\* C15: in every state, process_message on an input with a non-hex character
\* anywhere in it returns the empty list and leaves every field of the
\* context and of the state machine unchanged.
C15_NonHexDiscarded ==
    [][(op' = "process_message" /\ ~IsHexString(inp'[1])) =>
          /\ responses' = <<>>
          /\ ctx' = ctx
          /\ sm' = sm]_vars

\* ------------------------------------------------------------------ C16
\* the topics a state reacts to: the two ping topics and the state's own
ReactsTo(state) ==
    {PING_0D, PING_0F} \cup
    CASE state = "HANDSHAKE" -> {SETUP_TRIGGER}
      [] state = "SETUP" -> {SETUP_11, SETUP_10, SETUP_08}
      [] state = "WIFI_SCANNING" -> {WIFI_PASSWORD}
      [] state = "WIFI_CONNECTING" -> {SETUP_08}
      [] OTHER -> {}

\* C16: in every state, a message that is not an acknowledgment and whose
\* subheader is not a topic the state reacts to yields the empty list,
\* whatever the role prefix of its data.
C16_UnknownTopicSilent ==
    [][op' = "process_message" =>
          \A parsed \in {parse_message(inp'[1])} : \A msg \in {parsed[i] : i \in DOMAIN parsed} :
              (~is_ack(msg) /\ msg.subheader \notin ReactsTo(ctx.state)) =>
                  responses' = <<>>]_vars

\* ------------------------------------------------------------------ C17
\* a decoded message no handler acts on: an acknowledgment, which is never
\* dispatched, or a message that matches no branch of the handler of the
\* state
NotActedOn(state, msg) ==
    \/ is_ack(msg)
    \/ /\ state \in {"IDLE", "WIFI_CONNECTED"}
       /\ msg.subheader \notin {PING_0D, PING_0F}
    \/ /\ state = "HANDSHAKE"
       /\ msg.subheader \notin {PING_0D, PING_0F}
       /\ ~(msg.subheader = SETUP_TRIGGER /\ msg.data = REQUEST_20)
    \/ /\ state = "SETUP"
       /\ ~is_response(msg)
    \/ /\ state = "WIFI_SCANNING"
       /\ msg.subheader \notin {PING_0D, PING_0F}
       /\ ~(msg.subheader = WIFI_PASSWORD /\ is_request(msg))
    \/ /\ state = "WIFI_CONNECTING"
       /\ ~(msg.subheader = SETUP_08 /\ is_response(msg))

\* C17 as stated: a decoded message the handler of the state does not act
\* on yields the empty list and changes no field at all, the remembered peer
\* sequence included.
C17_UnhandledChangesNothing ==
    [][op' = "process_message" =>
          \A parsed \in {parse_message(inp'[1])} : \A msg \in {parsed[i] : i \in DOMAIN parsed} :
              NotActedOn(ctx.state, msg) =>
                  /\ responses' = <<>>
                  /\ ctx' = ctx
                  /\ sm' = sm]_vars

\* C17, amended: a decoded message the handler of the state does not act on
\* yields the empty list and changes no field but the remembered peer
\* sequence, which takes the sequence of the message when the message is not
\* an acknowledgment and its sequence is not 0.
C17_UnhandledKeepsAllButPeerSequence ==
    [][op' = "process_message" =>
          \A parsed \in {parse_message(inp'[1])} : \A msg \in {parsed[i] : i \in DOMAIN parsed} :
              NotActedOn(ctx.state, msg) =>
                  /\ responses' = <<>>
                  /\ raised' = FALSE
                  /\ sm' = sm
                  /\ ctx' = [ctx EXCEPT !.last_ihu_sequence =
                                IF ~is_ack(msg) /\ msg.sequence # 0
                                THEN msg.sequence ELSE @]]_vars

\* the setup trigger has arrived in Idle, before any ping: nothing is
\* returned and only the remembered peer sequence has moved
C17_Witness ==
    /\ InMsgOk
    /\ ctx.state = "IDLE"
    /\ InMsg.subheader = SETUP_TRIGGER
    /\ InMsg.data = REQUEST_20
    /\ responses = <<>>
    /\ ctx = [VCMContext EXCEPT !.last_ihu_sequence = InMsg.sequence]
    /\ ctx.last_ihu_sequence # 0
    /\ sm = VCMStateMachine

\* ------------------------------------------------------------------ C18
\* C18: after process_message has handled a decodable message, the
\* remembered peer sequence is the sequence byte of the message when that
\* byte is not 0 and is unchanged when it is 0, in every state and for every
\* role of the message, acknowledgments included.
C18_PeerSequenceTracked ==
    [][op' = "process_message" =>
          \A parsed \in {parse_message(inp'[1])} : \A msg \in {parsed[i] : i \in DOMAIN parsed} :
              ctx'.last_ihu_sequence =
                  IF msg.sequence # 0 THEN msg.sequence ELSE ctx.last_ihu_sequence]_vars

\* ------------------------------------------------------------------ C19
\* the places of the device-initiated requests in a list of messages
RequestsIn(rs) == {i \in 1..Len(rs) : is_request(rs[i])}

\* the draw _send_setup_phase makes before it looks at the phase is not used
\* in phase 3, which draws again
UnusedDraws(s, s1) == IF s.setup_phase = 2 /\ s1.setup_phase = 3 THEN 1 ELSE 0

\* C19: the device counter starts at 0x50 and stays in 0..255; a call of
\* process_message moves it by one modulo 256 for every draw, so 255 is
\* followed by 0; and every request the device initiates (the setup requests
\* and the connection-complete request) carries a value drawn from the
\* counter in that call, never a sequence received from the peer.
C19_RequestsDrawFromCounter ==
    /\ ctx.next_vcm_sequence = 80
    /\ [][op' = "process_message" =>
            \A drawn \in {(ctx'.next_vcm_sequence - ctx.next_vcm_sequence) % 256} :
                /\ ctx'.next_vcm_sequence \in 0..255
                /\ drawn = Cardinality(RequestsIn(responses')) + UnusedDraws(sm, sm')
                /\ \A i \in RequestsIn(responses') :
                      (responses'[i].sequence - ctx.next_vcm_sequence) % 256 < drawn]_vars

\* the counter has gone from 255 to 0 and the request carries 255
C19_Witness ==
    /\ op = "process_message"
    /\ ctx.next_vcm_sequence = 0
    /\ \E i \in RequestsIn(responses) : responses[i].sequence = 255

\* ------------------------------------------------------------------ C20
\* the places of the messages with the acknowledgment prefix 0270
AcksIn(rs) == {i \in 1..Len(rs) : startswith(rs[i].data, <<0,2,7,0>>)}

\* C20: in every state, every acknowledgment process_message returns has the
\* header, the subheader and the sequence of the message that came in and
\* the data 02700000; its sequence is the peer's, not one drawn from the
\* device counter.  Input that does not decode is never acknowledged.
C20_AckEchoesInbound ==
    op = "process_message" =>
        \A parsed \in {parse_message(inp[1])} :
            /\ parsed = None => AcksIn(responses) = {}
            /\ \A msg \in {parsed[i] : i \in DOMAIN parsed} : \A k \in AcksIn(responses) :
                  /\ responses[k].header = msg.header
                  /\ responses[k].subheader = msg.subheader
                  /\ responses[k].sequence = msg.sequence
                  /\ responses[k].data = <<0,2,7,0,0,0,0,0>>

\* the trigger has come in under a header the capture never shows: the
\* acknowledgment echoes that header and the peer's sequence while the
\* request beside it carries the device's
C20_Witness ==
    /\ InMsgOk
    /\ InMsg.header = OTHER_HEADER
    /\ InMsg.subheader = SETUP_TRIGGER
    /\ Len(responses) = 2
    /\ responses[1] = [header |-> OTHER_HEADER, length |-> 8, subheader |-> SETUP_TRIGGER,
                       sequence |-> InMsg.sequence, data |-> ACK_DATA]
    /\ is_request(responses[2])
    /\ responses[2].sequence # responses[1].sequence

\* ------------------------------------------------------------------ C21
\* the places of the messages with a response prefix, 0204 or 02e0
ResponsesIn(rs) ==
    {i \in 1..Len(rs) : startswith(rs[i].data, <<0,2,0,4>>) \/ startswith(rs[i].data, <<0,2,14,0>>)}

\* C21: every response-role message process_message returns in answer to a
\* message of the peer, with the subheader and the sequence of that message,
\* has its 7-byte header too, the password-accepted response of the
\* connection sequence included.
C21_ResponseKeepsHeader ==
    op = "process_message" =>
        \A parsed \in {parse_message(inp[1])} :
            \A msg \in {parsed[i] : i \in DOMAIN parsed} : \A k \in ResponsesIn(responses) :
                (responses[k].subheader = msg.subheader /\ responses[k].sequence = msg.sequence)
                    => responses[k].header = msg.header

\* ------------------------------------------------------------------ C22
\* C22: every message process_message or tick returns carries whole bytes
\* of data, a length field of 4 plus the number of those bytes, and a length
\* that fits in one byte.
C22_LengthConsistent ==
    \A i \in 1..Len(responses) :
        /\ Len(responses[i].data) % 2 = 0
        /\ responses[i].length = 4 + (Len(responses[i].data) \div 2)
        /\ responses[i].length <= 255

\* tick has returned the broadcast of WifiConnected: 14 bytes of data under
\* the length 18
C22_Witness ==
    /\ op = "tick"
    /\ Len(responses) = 1
    /\ responses[1].data = SSID_CONNECTED
    /\ Len(responses[1].data) = 28
    /\ responses[1].length = 18

\* ------------------------------------------------------------------ C23
\* message m has the header, subheader and sequence of msg and the data d
Answers(m, msg, d) ==
    /\ m.header = msg.header
    /\ m.subheader = msg.subheader
    /\ m.sequence = msg.sequence
    /\ m.data = d

\* C23: in Idle, Handshake, WifiScanning and WifiConnected a message on a
\* ping topic that is not an acknowledgment yields exactly two messages, the
\* acknowledgment and then the response 020400000000 (a40d00) or
\* 0204000000 (a30f00), both with the header, subheader and sequence of the
\* ping; outside Idle nothing changes but the remembered peer sequence.
C23_PingAnswered ==
    [][op' = "process_message" =>
          \A parsed \in {parse_message(inp'[1])} : \A msg \in {parsed[i] : i \in DOMAIN parsed} :
              (/\ ~is_ack(msg)
               /\ msg.subheader \in {<<10,4,0,13,0,0>>, <<10,3,0,15,0,0>>}
               /\ ctx.state \in {"IDLE", "HANDSHAKE", "WIFI_SCANNING", "WIFI_CONNECTED"}) =>
                  /\ Len(responses') = 2
                  /\ Answers(responses'[1], msg, <<0,2,7,0,0,0,0,0>>)
                  /\ Answers(responses'[2], msg,
                             IF msg.subheader = <<10,4,0,13,0,0>>
                             THEN <<0,2,0,4,0,0,0,0,0,0,0,0>>
                             ELSE <<0,2,0,4,0,0,0,0,0,0>>)
                  /\ ctx.state # "IDLE" =>
                        /\ sm' = sm
                        /\ ctx' = [ctx EXCEPT !.last_ihu_sequence =
                                      IF msg.sequence # 0 THEN msg.sequence ELSE @]]_vars

\* a ping on a30f00 has been answered in WifiConnected
C23_Witness ==
    /\ InMsgOk
    /\ ctx.state = "WIFI_CONNECTED"
    /\ InMsg.subheader = PING_0F
    /\ Len(responses) = 2
    /\ responses[1].data = ACK_DATA
    /\ responses[2].data = RESPONSE_SHORT
    /\ responses[2].sequence = InMsg.sequence

\* ------------------------------------------------------------------ C24
\* C24: WifiConnected is terminal: from a state in WifiConnected no message
\* and no tick leads to another operational state or to a cleared connected
\* flag.
C24_ConnectedIsTerminal ==
    [][ctx.state = "WIFI_CONNECTED" =>
          /\ ctx'.state = "WIFI_CONNECTED"
          /\ ctx'.wifi_connected = TRUE]_vars

\* the credentials that start a connection in WifiScanning have arrived in
\* WifiConnected and the device is still connected
C24_Witness ==
    /\ InMsgOk
    /\ InMsg.subheader = WIFI_PASSWORD
    /\ InMsg.data = CRED_LAIKINAS
    /\ ctx.state = "WIFI_CONNECTED"
    /\ ctx.wifi_connected = TRUE
    /\ responses = <<>>

\* ------------------------------------------------------------------ C25
\* the step is a trigger: one datagram or one turn of the tick loop
Trigger == op' \in {"datagram_received", "tick"}

\* C25: every trigger hands all the messages it produced to the transport,
\* in the order of the list, within its own step, and the context, the state
\* machine and the transport change in trigger steps only: the wire carries
\* the lists of the triggers one after the other and the updates of two
\* triggers never interleave.
C25_TriggersSerialized ==
    [][/\ Trigger =>
            /\ Len(sendto') = Len(responses')
            /\ \A i \in 1..Len(responses') :
                  bytes_hex(sendto'[i].data) =
                      responses'[i].header \o format02x(responses'[i].length)
                          \o responses'[i].subheader \o format02x(responses'[i].sequence)
                          \o responses'[i].data
       /\ ~Trigger => UNCHANGED <<ctx, sm, ihu_addr, sendto>>]_vars

\* the credentials have arrived: the nine messages of the connection
\* sequence went to the transport in one step, the first and the last where
\* the list has them
C25_Witness ==
    /\ op = "datagram_received"
    /\ Len(responses) = 9
    /\ Len(sendto) = 9
    /\ bytes_hex(sendto[1].data) = raw(responses[1])
    /\ responses[1].data = ACK_DATA
    /\ bytes_hex(sendto[9].data) = raw(responses[9])
    /\ responses[9].data = REQUEST_80

\* ------------------------------------------------------------------ C26
\* C26: a liveness datagram, in any state, does not reach the state machine:
\* every field of the context and of the state machine is as before and
\* nothing is sent.
C26_LivenessDropped ==
    [][(op' = "datagram_received" /\ bytes_hex(inp'[1]) \in {LIVENESS_14, LIVENESS_32}) =>
          /\ ctx' = ctx
          /\ sm' = sm
          /\ responses' = <<>>
          /\ sendto' = <<>>
          /\ raised' = FALSE]_vars

\* the second liveness datagram has arrived during setup
C26_Witness ==
    /\ op = "datagram_received"
    /\ bytes_hex(inp[1]) = LIVENESS_32
    /\ ctx.state = "SETUP"
    /\ sm.setup_phase = 2
    /\ ctx.last_ihu_sequence = 75
    /\ sendto = <<>>

\* ------------------------------------------------------------------ C27
\* C27: every datagram the transport is handed, a reply or a broadcast of
\* tick, is addressed to the sender of the latest datagram received, of any
\* kind, or to 198.18.34.1:50000 when none has been received.
C27_AddressedToLastSender ==
    [][Trigger =>
          \A i \in 1..Len(sendto') :
              sendto'[i].addr = IF sender' # None THEN sender'[1]
                                ELSE <<"198.18.34.1", 50000>>]_vars

\* a broadcast of tick has gone to the second address, the one the latest
\* datagram, a liveness datagram, came from
C27_Witness ==
    /\ op = "tick"
    /\ Len(sendto) = 1
    /\ sender = Some(<<"198.18.34.7", 50007>>)
    /\ sendto[1].addr = <<"198.18.34.7", 50007>>
    /\ ihu_addr = sender

\* ------------------------------------------------------------------ C28
\* C28 as stated: for every message create_message builds from a 7-byte
\* header, a 3-byte subheader, a sequence in 0..255 and whole bytes of data,
\* parse_message of its encoding is that message, field for field.
C28_RoundTrip ==
    [][(op = "create_message" /\ op' = "parse_message") => result' = result]_vars

\* C28, amended: the same for data of at most 251 bytes, the largest whose
\* length, 4 + 251, fits the one byte of the length field.
C28_RoundTripWithinOneByte ==
    [][(op = "create_message" /\ op' = "parse_message" /\ Len(result[1].data) <= 2 * 251) =>
          result' = result]_vars

\* a message with 251 bytes of data and the sequence 10 has come back from
\* its encoding
C28_Witness ==
    /\ op = "parse_message"
    /\ result # None
    /\ Len(result[1].data) = 502
    /\ result[1].length = 255
    /\ result[1].sequence = 10
    /\ Len(inp[1]) = 526

\* ------------------------------------------------------------------ C29
\* C29: a datagram of 12 bytes or more, decoded by parse_message and encoded
\* again by raw_bytes, comes back byte for byte, whether its length byte
\* agrees with the size of its data or not.
C29_DatagramRoundTrip ==
    (op = "raw_bytes" /\ Len(inp[1]) >= 12) => result = inp

\* a datagram of 16 bytes announcing the length 0 has come back unchanged
C29_Witness ==
    /\ op = "raw_bytes"
    /\ Len(inp[1]) = 16
    /\ inp[1][8] = 0
    /\ inp[1][12] = 9
    /\ result = inp

\* ------------------------------------------------------------------ C30
\* C30: a message is an acknowledgment exactly when its data is 02700000;
\* data that goes on after 02700000, or anything else, is not.
C30_AckIffSentinel ==
    op = "is_ack" => result = Some(inp[1].data = <<0,2,7,0,0,0,0,0>>)

\* data that starts with 02700000 and goes on has been classified as no
\* acknowledgment
C30_Witness ==
    /\ op = "is_ack"
    /\ inp[1].data = <<0,2,7,0,0,0,0,0,0,0>>
    /\ result = Some(FALSE)

\* ------------------------------------------------------------------ C31
\* C31: whenever process_message returns a non-empty list, its first element
\* is an acknowledgment (data 02700000) with the subheader and the sequence
\* of the message that came in; and every call of process_message that
\* changes the operational state returns a non-empty list.
C31_AckComesFirst ==
    [][op' = "process_message" =>
          /\ responses' # <<>> =>
                \A parsed \in {parse_message(inp'[1])} :
                    /\ parsed # None
                    /\ responses'[1].data = <<0,2,7,0,0,0,0,0>>
                    /\ responses'[1].subheader = parsed[1].subheader
                    /\ responses'[1].sequence = parsed[1].sequence
          /\ ctx'.state # ctx.state => responses' # <<>>]_vars

\* the peer's confirmation has just moved the state to WifiConnected: the
\* list that came back starts with its acknowledgment
C31_Witness ==
    /\ InMsgOk
    /\ ctx.state = "WIFI_CONNECTED"
    /\ Len(responses) = 2
    /\ responses[1] = create_ack(InMsg)
    /\ responses[2].subheader = WIFI_FINAL

\* ------------------------------------------------------------------ C32
\* C32: the state becomes Setup only in a call of process_message made in
\* Handshake with a message on a40002 whose data is exactly 0202000020; the
\* same message in Idle, and a message on a40002 with any other data in
\* Handshake, return nothing and leave the operational state as it was.
C32_SetupOnlyByTrigger ==
    [][/\ (ctx'.state = "SETUP" /\ ctx.state # "SETUP") =>
             /\ op' = "process_message"
             /\ ctx.state = "HANDSHAKE"
             /\ \A parsed \in {parse_message(inp'[1])} :
                   /\ parsed # None
                   /\ parsed[1].subheader = SETUP_TRIGGER
                   /\ parsed[1].data = <<0,2,0,2,0,0,0,0,2,0>>
       /\ op' = "process_message" =>
             \A parsed \in {parse_message(inp'[1])} :
                 \A msg \in {parsed[i] : i \in DOMAIN parsed} :
                     (/\ msg.subheader = SETUP_TRIGGER
                      /\ \/ ctx.state = "IDLE" /\ msg.data = <<0,2,0,2,0,0,0,0,2,0>>
                         \/ ctx.state = "HANDSHAKE" /\ msg.data # <<0,2,0,2,0,0,0,0,2,0>>)
                     => /\ responses' = <<>>
                        /\ ctx'.state = ctx.state]_vars

\* a request on a40002 with the data 02000000 has come in during Handshake
\* and was passed over
C32_Witness ==
    /\ InMsgOk
    /\ InMsg.subheader = SETUP_TRIGGER
    /\ InMsg.data = REQUEST_BASIC
    /\ ctx.state = "HANDSHAKE"
    /\ ctx.last_ihu_sequence = InMsg.sequence
    /\ ctx.setup_trigger_msg = None
    /\ responses = <<>>

\* ------------------------------------------------------------------ C33
\* C33: the step that moves the state from Setup to WifiScanning returns a
\* response with the data 0204000020 and the header, the subheader and the
\* sequence of the stored setup trigger; and in every state other than Idle
\* and Handshake a setup trigger is stored.
C33_CompletionAnswersTrigger ==
    [][/\ (ctx.state = "SETUP" /\ ctx'.state = "WIFI_SCANNING") =>
             /\ ctx.setup_trigger_msg # None
             /\ \E i \in 1..Len(responses') :
                   /\ responses'[i].data = <<0,2,0,4,0,0,0,0,2,0>>
                   /\ responses'[i].header = ctx.setup_trigger_msg[1].header
                   /\ responses'[i].subheader = ctx.setup_trigger_msg[1].subheader
                   /\ responses'[i].sequence = ctx.setup_trigger_msg[1].sequence
       /\ ctx'.state \notin {"IDLE", "HANDSHAKE"} => ctx'.setup_trigger_msg # None]_vars

\* setup has just been completed by a response with the sequence 0, and the
\* completion response carries the header and the sequence 0x4b of a trigger
\* that came under another header
C33_Witness ==
    /\ InMsgOk
    /\ InMsg.subheader = SETUP_08
    /\ InMsg.sequence = 0
    /\ ctx.state = "WIFI_SCANNING"
    /\ ctx.setup_trigger_msg # None
    /\ ctx.setup_trigger_msg[1].header = OTHER_HEADER
    /\ Len(responses) = 3
    /\ responses[3] = [header |-> OTHER_HEADER, length |-> 9, subheader |-> SETUP_TRIGGER,
                       sequence |-> 75, data |-> RESPONSE_20]

\* ------------------------------------------------------------------ C34
\* C34: in WifiScanning a request on a40802 returns exactly nine messages in
\* a fixed order: first the acknowledgment, second the connecting-status
\* reply 02e0000048 with the sequence of the request, then the status and
\* connection-info messages, and last a request on a30802 with the data
\* 0202000080 whose sequence is the next value of the device counter.
C34_ConnectionSequenceOrder ==
    [][(op' = "process_message" /\ ctx.state = "WIFI_SCANNING") =>
          \A parsed \in {parse_message(inp'[1])} :
              \A msg \in {parsed[i] : i \in DOMAIN parsed} :
                  (msg.subheader = WIFI_PASSWORD /\ is_request(msg)) =>
                      /\ Len(responses') = 9
                      /\ responses'[1].data = <<0,2,7,0,0,0,0,0>>
                      /\ responses'[1].subheader = msg.subheader
                      /\ responses'[1].sequence = msg.sequence
                      /\ responses'[2].data = <<0,2,14,0,0,0,0,0,4,8>>
                      /\ responses'[2].subheader = msg.subheader
                      /\ responses'[2].sequence = msg.sequence
                      /\ \A i \in 3..8 :
                            <<responses'[i].subheader, responses'[i].data>> = ConnectionSequence[i]
                      /\ responses'[9].subheader = SETUP_08
                      /\ responses'[9].data = <<0,2,0,2,0,0,0,0,8,0>>
                      /\ responses'[9].sequence = ctx.next_vcm_sequence
                      /\ ctx'.next_vcm_sequence = (ctx.next_vcm_sequence + 1) % 256]_vars

\* the captured credential request has just been answered: nine messages,
\* the second with the peer's sequence 0x4b, the last with the device's
C34_Witness ==
    /\ InMsgOk
    /\ InMsg.subheader = WIFI_PASSWORD
    /\ InMsg.data = CRED_LAIKINAS
    /\ ctx.state = "WIFI_CONNECTING"
    /\ Len(responses) = 9
    /\ responses[2].data = WIFI_CONNECTING
    /\ responses[2].sequence = 75
    /\ responses[9].subheader = SETUP_08
    /\ responses[9].sequence = (ctx.next_vcm_sequence - 1) % 256
    /\ responses[9].sequence # 75

\* ------------------------------------------------------------------ C35
\* C35: the state moves from WifiConnecting to WifiConnected only on a
\* response on a30802 whose sequence is the sequence of the
\* connection-complete request issued when WifiConnecting was entered; a
\* response on a30802 with another sequence does not complete the connection.
C35_ConfirmationMatchesRequest ==
    [][(ctx.state = "WIFI_CONNECTING" /\ ctx'.state = "WIFI_CONNECTED") =>
          /\ op' = "process_message"
          /\ \A parsed \in {parse_message(inp'[1])} :
                /\ parsed # None
                /\ parsed[1].subheader = SETUP_08
                /\ is_response(parsed[1])
                /\ sm.connection_complete_seq = Some(parsed[1].sequence)]_vars

\* ------------------------------------------------------------------ C36
\* the place of a state in the order of the session
StateRank(state) ==
    CASE state = "IDLE" -> 0
      [] state = "HANDSHAKE" -> 1
      [] state = "SETUP" -> 2
      [] state = "WIFI_SCANNING" -> 3
      [] state = "WIFI_CONNECTING" -> 4
      [] state = "WIFI_CONNECTED" -> 5

\* C36: whatever messages and ticks come, the operational state only moves
\* forward along Idle, Handshake, Setup, WifiScanning, WifiConnecting,
\* WifiConnected, one state at a time: no step skips a state or goes back.
C36_ForwardOneStep ==
    [][ctx'.state # ctx.state => StateRank(ctx'.state) = StateRank(ctx.state) + 1]_vars

\* the end of the line, with the traces every stage leaves behind
C36_Witness ==
    /\ ctx.state = "WIFI_CONNECTED"
    /\ sm.handshake_messages_seen = {PING_0D, PING_0F}
    /\ ctx.setup_trigger_msg # None
    /\ sm.setup_phase = 4
    /\ sm.wifi_connect_sequence # None
    /\ sm.connection_complete_seq # None
    /\ ctx.wifi_connected

\* ------------------------------------------------------------------ C37
\* C37: the setup phase is always in 0..4: it is 0 in Idle and Handshake,
\* 0..3 while the state is Setup and 4 in WifiScanning, WifiConnecting and
\* WifiConnected; and it changes only in a step taken in Setup or in the step
\* that enters Setup.
C37_SetupPhaseRange ==
    [][/\ sm'.setup_phase \in 0..4
       /\ ctx'.state \in {"IDLE", "HANDSHAKE"} => sm'.setup_phase = 0
       /\ ctx'.state = "SETUP" => sm'.setup_phase \in 0..3
       /\ ctx'.state \in {"WIFI_SCANNING", "WIFI_CONNECTING", "WIFI_CONNECTED"} =>
             sm'.setup_phase = 4
       /\ sm'.setup_phase # sm.setup_phase =>
             \/ ctx.state = "SETUP"
             \/ ctx.state = "HANDSHAKE" /\ ctx'.state = "SETUP"]_vars

\* the second response on a30802 has just taken the phase from 3 to 4 and
\* the state out of Setup
C37_Witness ==
    /\ InMsgOk
    /\ InMsg.subheader = SETUP_08
    /\ is_response(InMsg)
    /\ ctx.state = "WIFI_SCANNING"
    /\ sm.setup_phase = 4
    /\ Len(responses) = 3
    /\ responses[2].subheader = STATUS_00

\* ------------------------------------------------------------------ C38
\* C38: in every reachable state the connected flag is set if and only if
\* the operational state is WifiConnected.
C38_FlagIffConnected ==
    ctx.wifi_connected <=> ctx.state = "WIFI_CONNECTED"

\* connected, and a credential request that came afterwards was passed over
C38_Witness ==
    /\ InMsgOk
    /\ InMsg.subheader = WIFI_PASSWORD
    /\ is_request(InMsg)
    /\ responses = <<>>
    /\ ctx.state = "WIFI_CONNECTED"
    /\ ctx.wifi_connected

\* ------------------------------------------------------------------ C40
\* C40: in Setup and in WifiConnecting a ping request (a40d00 or a30f00 with
\* the data 02000000) gets neither an acknowledgment nor a response:
\* process_message returns an empty list and leaves the operational state
\* and the setup phase as they were.
C40_PingUnansweredMidSequence ==
    [][(op' = "process_message" /\ ctx.state \in {"SETUP", "WIFI_CONNECTING"}) =>
          \A parsed \in {parse_message(inp'[1])} :
              \A msg \in {parsed[i] : i \in DOMAIN parsed} :
                  (msg.subheader \in {PING_0D, PING_0F} /\ msg.data = <<0,2,0,0,0,0,0,0>>) =>
                      /\ responses' = <<>>
                      /\ ~raised'
                      /\ ctx'.state = ctx.state
                      /\ sm'.setup_phase = sm.setup_phase]_vars

\* a ping on a30f00 has come in while the device waits for the peer's
\* confirmation, and nothing went back
C40_Witness ==
    /\ InMsgOk
    /\ InMsg.subheader = PING_0F
    /\ InMsg.data = REQUEST_BASIC
    /\ ctx.state = "WIFI_CONNECTING"
    /\ responses = <<>>

\* ------------------------------------------------------------------ C39
\* the sequence of the request sent before the request at place i of the
\* list rs: an earlier one of the same list, or the latest of earlier calls
RequestBefore(rs, i) ==
    LET earlier == {j \in RequestsIn(rs) : j < i}
    IN  IF earlier = {} THEN last_request
        ELSE Some(rs[CHOOSE j \in earlier : \A k \in earlier : k <= j].sequence)

====
